---- MODULE Spec2Model ----
(***************************************************************************)
(* rusty-epanet: the typed wrapper (src/src/impls/*.rs) over the EPANET    *)
(* engine.  The wrapper's methods are modelled from their Rust source.     *)
(* The engine behind the FFI boundary (EN_* functions) is not part of the  *)
(* wrapper's source; its index/cascade behaviour is modelled from the      *)
(* specification and the wrapper's tests.                                  *)
(***************************************************************************)
EXTENDS Integers, Sequences, FiniteSets, TLC

VARIABLES ph,    \* the engine project behind EPANET.ph: Node, Link, Control, Rule, Curve
          pre,   \* the engine project as it was before the last wrapper call
          last,  \* the last wrapper call: operation, arguments, result, FFI calls made
          sim,    \* the engine's solvers and clocks: hydraulic and quality analysis state
          psim,   \* the engine's solvers and clocks as they were before the last wrapper call
          obs,   \* what the caller of the stepping calls has seen so far (its loop position, sums)
          held,  \* the Control snapshot the caller holds, if any
          life   \* every engine project ever created, and the EPANET values that own them

vars == <<ph, pre, last, sim, psim, obs, held, life>>

\* The variables a model-editing call (rules, links, nodes) leaves alone.
analysis == <<sim, psim, obs, held, life>>

\* Bound: add_rule is not offered once the engine holds this many rules.
MaxRules == 3

----------------------------------------------------------------------------
(* Sequence helpers *)

RemoveAt(s, i) == SubSeq(s, 1, i - 1) \o SubSeq(s, i + 1, Len(s))

RECURSIVE IndexOfFrom(_, _, _)
IndexOfFrom(s, id, i) ==
    IF i > Len(s) THEN 0
    ELSE IF s[i].ID = id THEN i
    ELSE IndexOfFrom(s, id, i + 1)

\* Number of positions j < i of s for which the flag sequence says "removed".
RECURSIVE CountBelow(_, _)
CountBelow(flags, i) ==
    IF i <= 1 THEN 0
    ELSE CountBelow(flags, i - 1) + (IF flags[i - 1] THEN 1 ELSE 0)

----------------------------------------------------------------------------
(* Result<T> of the wrapper, and the error type *)

\* EPANETError::from(code): the error carries the engine's code.
EPANETError_from(code) == [kind |-> "Err", code |-> code]

Ok(v) == [kind |-> "Ok", val |-> v]

Unit == "()"

\* The ? operator continues on Ok and returns the error otherwise.
IsOkResult(r) == r.kind = "Ok"

\* A Rust panic (expect/unwrap on None) unwinds out of the wrapper call.
Panic(msg) == [kind |-> "Panic", msg |-> msg]

\* EPANETError::with_context: the same error with the context attached.
with_context(error, context) ==
    [kind |-> "Err", code |-> error.code, context |-> context]

\* Mutant: a derived PartialEq, comparing every field of the two errors.
eq_derived(self, other) == self = other

\* impl PartialEq for EPANETError: two errors are equal when their codes are.
eq(self, other) == self.code = other.code

check_error_with_context(code, context) ==
    IF code = 0 THEN Ok(Unit) ELSE with_context(EPANETError_from(code), context)

----------------------------------------------------------------------------
(* Enumerations shared by wrapper and engine *)

\* Mutant: the two action codes exchanged.
ActionCodeType_as_i32_swapped(action_code) ==
    IF action_code = "Unconditional" THEN 1 ELSE 0

\* ActionCodeType as i32 (EN_UNCONDITIONAL, EN_CONDITIONAL).
ActionCodeType_as_i32(action_code) ==
    IF action_code = "Unconditional" THEN 0 ELSE 1

ActionCodes == {"Unconditional", "Conditional"}

\* Rule object codes of the engine (EN_R_NODE, EN_R_LINK, EN_R_SYSTEM).
EN_RuleObject == [Node |-> 6, Link |-> 7, System |-> 8]

\* Engine keyword tables used by the rule parser.
ObjectWord ==
    [NODE |-> 6, JUNCTION |-> 6, TANK |-> 6, RESERVOIR |-> 6,
     LINK |-> 7, PIPE |-> 7, PUMP |-> 7, VALVE |-> 7, SYSTEM |-> 8]

LogopWord == [IF |-> 1, AND |-> 2, OR |-> 3]

VarWord ==
    [DEMAND |-> 0, HEAD |-> 1, GRADE |-> 2, LEVEL |-> 3, PRESSURE |-> 4,
     FLOW |-> 5, STATUS |-> 6, SETTING |-> 7, POWER |-> 8, TIME |-> 9,
     CLOCKTIME |-> 10, FILLTIME |-> 11, DRAINTIME |-> 12]

OperatorWord ==
    ("=" :> 0) @@ ("<>" :> 1) @@ ("<=" :> 2) @@ (">=" :> 3) @@ ("<" :> 4) @@
    (">" :> 5) @@ ("IS" :> 6) @@ ("NOT" :> 7) @@ ("BELOW" :> 8) @@ ("ABOVE" :> 9)

ValueWord == [OPEN |-> 1, CLOSED |-> 2, ACTIVE |-> 3]

\* The engine's "no value given" marker for a premise value / action setting.
MISSING == -99999

\* The engine's status of an action that sets a SETTING (no status given).
NO_ACTION_STATUS == -1

\* The engine's status of a premise that compares a numeric value.
NO_PREMISE_STATUS == 0

----------------------------------------------------------------------------
(* The engine: lookups *)

findnode(p, id) == IndexOfFrom(p.Node, id, 1)

findlink(p, id) == IndexOfFrom(p.Link, id, 1)

\* EN_getcount for the four object kinds the model holds.
EN_getcount(p, count_type) ==
    CASE count_type = "NodeCount"    -> [code |-> 0, count |-> Len(p.Node)]
      [] count_type = "LinkCount"    -> [code |-> 0, count |-> Len(p.Link)]
      [] count_type = "ControlCount" -> [code |-> 0, count |-> Len(p.Control)]
      [] count_type = "RuleCount"    -> [code |-> 0, count |-> Len(p.Rule)]
      [] OTHER                       -> [code |-> 251, count |-> 0]

\* EN_getlinkindex: 204 when no link has the ID; the output is then not written.
EN_getlinkindex(p, id) ==
    IF findlink(p, id) = 0 THEN [code |-> 204, index |-> 0]
    ELSE [code |-> 0, index |-> findlink(p, id)]

\* EN_getnodeindex: 203 when no node has the ID.
EN_getnodeindex(p, id) ==
    IF findnode(p, id) = 0 THEN [code |-> 203, index |-> 0]
    ELSE [code |-> 0, index |-> findnode(p, id)]

----------------------------------------------------------------------------
(* The engine: references from controls and rules, cascading deletion *)

\* Does the rule refer to object (ruleObject, index)?  Premises are checked
\* for nodes and links, action clauses only for links.
RuleRefers(rule, ruleObject, index) ==
    \/ \E i \in 1..Len(rule.Premises) :
          /\ rule.Premises[i].object = ruleObject
          /\ rule.Premises[i].index = index
    \/ /\ ruleObject = EN_RuleObject.Link
       /\ \/ \E i \in 1..Len(rule.ThenActions) : rule.ThenActions[i].link = index
          \/ \E i \in 1..Len(rule.ElseActions) : rule.ElseActions[i].link = index

\* incontrols: 1 when a simple control or a rule refers to the node/link.
incontrols(p, objType, index) ==
    IF \/ \E i \in 1..Len(p.Control) :
             IF objType = "NODE" THEN p.Control[i].Node = index
                                 ELSE p.Control[i].Link = index
       \/ \E i \in 1..Len(p.Rule) :
             RuleRefers(p.Rule[i],
                        IF objType = "NODE" THEN EN_RuleObject.Node
                                            ELSE EN_RuleObject.Link,
                        index)
    THEN 1 ELSE 0

ShiftPremise(prem, ruleObject, index) ==
    IF prem.object = ruleObject /\ prem.index > index
    THEN [prem EXCEPT !.index = @ - 1] ELSE prem

ShiftAction(act, ruleObject, index) ==
    IF ruleObject = EN_RuleObject.Link /\ act.link > index
    THEN [act EXCEPT !.link = @ - 1] ELSE act

\* adjustrules: delete the rules that refer to the deleted object, then
\* lower the higher object indices held by the surviving rules.
adjustrules(rules, ruleObject, index) ==
    LET kept == SelectSeq(rules, LAMBDA r : ~RuleRefers(r, ruleObject, index))
    IN  [k \in 1..Len(kept) |->
            [kept[k] EXCEPT
               !.Premises = [i \in 1..Len(@) |-> ShiftPremise(@[i], ruleObject, index)],
               !.ThenActions = [i \in 1..Len(@) |-> ShiftAction(@[i], ruleObject, index)],
               !.ElseActions = [i \in 1..Len(@) |-> ShiftAction(@[i], ruleObject, index)]]]

\* Controls after the deletion of link `index`.
ControlsAfterLink(controls, index) ==
    LET kept == SelectSeq(controls, LAMBDA c : c.Link # index)
    IN  [k \in 1..Len(kept) |->
            IF kept[k].Link > index THEN [kept[k] EXCEPT !.Link = @ - 1] ELSE kept[k]]

\* Controls after the deletion of node `index`.
ControlsAfterNode(controls, index) ==
    LET kept == SelectSeq(controls, LAMBDA c : c.Node # index)
    IN  [k \in 1..Len(kept) |->
            IF kept[k].Node > index THEN [kept[k] EXCEPT !.Node = @ - 1] ELSE kept[k]]

\* EN_deletelink
EN_deletelink(p, index, actionCode) ==
    IF index <= 0 \/ index > Len(p.Link) THEN [code |-> 204, p |-> p]
    ELSE IF actionCode < 0 \/ actionCode > 1 THEN [code |-> 251, p |-> p]
    ELSE IF actionCode = 1 /\ incontrols(p, "LINK", index) > 0
         THEN [code |-> 261, p |-> p]
    ELSE [code |-> 0,
          p |-> [p EXCEPT !.Link = RemoveAt(@, index),
                          !.Control = ControlsAfterLink(@, index),
                          !.Rule = adjustrules(@, EN_RuleObject.Link, index)]]

\* The links connected to the deleted node are deleted, highest index first.
RECURSIVE DeleteLinksOf(_, _, _)
DeleteLinksOf(p, node, i) ==
    IF i < 1 THEN p
    ELSE IF p.Link[i].N1 = node \/ p.Link[i].N2 = node
         THEN DeleteLinksOf(EN_deletelink(p, i, 0).p, node, i - 1)
         ELSE DeleteLinksOf(p, node, i - 1)

ConnectedLinks(p, node) ==
    Cardinality({i \in 1..Len(p.Link) : p.Link[i].N1 = node \/ p.Link[i].N2 = node})

\* EN_deletenode
EN_deletenode(p, index, actionCode) ==
    IF index <= 0 \/ index > Len(p.Node) THEN [code |-> 203, p |-> p]
    ELSE IF actionCode < 0 \/ actionCode > 1 THEN [code |-> 251, p |-> p]
    ELSE IF actionCode = 1 /\ incontrols(p, "NODE", index) + ConnectedLinks(p, index) > 0
         THEN [code |-> 261, p |-> p]
    ELSE
      LET p1 == [p EXCEPT !.Node = RemoveAt(@, index)]
          p2 == DeleteLinksOf(p1, index, Len(p1.Link))
          p3 == [p2 EXCEPT !.Link =
                    [i \in 1..Len(@) |->
                        [@[i] EXCEPT !.N1 = IF @ > index THEN @ - 1 ELSE @,
                                     !.N2 = IF @ > index THEN @ - 1 ELSE @]]]
      IN [code |-> 0,
          p |-> [p3 EXCEPT !.Control = ControlsAfterNode(@, index),
                           !.Rule = adjustrules(@, EN_RuleObject.Node, index)]]

\* EN_deleterule: 257 for an index that is no rule.
EN_deleterule(p, index) ==
    IF index < 1 \/ index > Len(p.Rule) THEN [code |-> 257, p |-> p]
    ELSE [code |-> 0, p |-> [p EXCEPT !.Rule = RemoveAt(@, index)]]

----------------------------------------------------------------------------
(* The engine: the rule parser behind EN_addrule *)

\* A premise line  <logop> <object> <id> <variable> <relop> <word|number>.
newpremise(p, t) ==
    LET bad(c) == [code |-> c, premise |-> <<>>]
    IN
    IF t.logop \notin DOMAIN LogopWord THEN bad(201)
    ELSE IF t.object \notin DOMAIN ObjectWord THEN bad(201)
    ELSE IF t.variable \notin DOMAIN VarWord THEN bad(201)
    ELSE IF t.relop \notin DOMAIN OperatorWord THEN bad(201)
    ELSE
      LET obj == ObjectWord[t.object]
          v   == VarWord[t.variable]
          j   == IF obj = EN_RuleObject.System THEN 0
                 ELSE IF obj = EN_RuleObject.Node THEN findnode(p, t.id)
                 ELSE findlink(p, t.id)
          isTime == v = VarWord.TIME \/ v = VarWord.CLOCKTIME
          s   == IF ~isTime /\ t.word \in DOMAIN ValueWord
                 THEN ValueWord[t.word] ELSE NO_PREMISE_STATUS
          x   == IF isTime THEN t.number * 3600
                 ELSE IF t.word \in DOMAIN ValueWord THEN MISSING
                 ELSE IF v = VarWord.FILLTIME \/ v = VarWord.DRAINTIME
                      THEN t.number * 3600
                 ELSE t.number
      IN
      IF obj = EN_RuleObject.System
         /\ v \notin {VarWord.DEMAND, VarWord.TIME, VarWord.CLOCKTIME} THEN bad(201)
      ELSE IF obj = EN_RuleObject.Node /\ j = 0 THEN bad(203)
      ELSE IF obj = EN_RuleObject.Link /\ j = 0 THEN bad(204)
      ELSE IF obj = EN_RuleObject.Node
              /\ v \notin {VarWord.DEMAND, VarWord.HEAD, VarWord.GRADE, VarWord.LEVEL,
                           VarWord.PRESSURE, VarWord.FILLTIME, VarWord.DRAINTIME}
           THEN bad(201)
      ELSE IF obj = EN_RuleObject.Node
              /\ v \in {VarWord.FILLTIME, VarWord.DRAINTIME}
              /\ p.Node[j].Type = "Junction"
           THEN bad(201)
      ELSE IF obj = EN_RuleObject.Link
              /\ v \notin {VarWord.FLOW, VarWord.STATUS, VarWord.SETTING}
           THEN bad(201)
      ELSE IF isTime /\ x < 0 THEN bad(202)
      ELSE [code |-> 0,
            premise |-> [logop |-> LogopWord[t.logop], object |-> obj, index |-> j,
                         variable |-> v, relop |-> OperatorWord[t.relop],
                         status |-> s, value |-> x]]

\* An action line  LINK <id> STATUS|SETTING = <word|number>.
newaction(p, t) ==
    LET bad(c) == [code |-> c, action |-> <<>>]
        j == findlink(p, t.id)
    IN
    IF t.object \notin DOMAIN ObjectWord THEN bad(201)
    ELSE IF ObjectWord[t.object] # EN_RuleObject.Link THEN bad(201)
    ELSE IF t.attr \notin {"STATUS", "SETTING"} THEN bad(201)
    ELSE IF j = 0 THEN bad(204)
    ELSE IF t.word \in DOMAIN ValueWord
         THEN [code |-> 0,
               action |-> [link |-> j, status |-> ValueWord[t.word], setting |-> MISSING]]
    ELSE IF t.number < 0 THEN bad(202)
    ELSE [code |-> 0,
          action |-> [link |-> j, status |-> NO_ACTION_STATUS, setting |-> t.number]]

\* First non-zero code of a sequence of parse results, 0 when there is none.
RECURSIVE FirstCode(_, _)
FirstCode(rs, i) ==
    IF i > Len(rs) THEN 0
    ELSE IF rs[i].code # 0 THEN rs[i].code
    ELSE FirstCode(rs, i + 1)

\* EN_addrule: parses the text; on any error nothing is added, otherwise the
\* rule is appended as rule Nrules + 1, enabled.
EN_addrule(p, text) ==
    LET prs == [i \in 1..Len(text.premises) |-> newpremise(p, text.premises[i])]
        ths == [i \in 1..Len(text.then) |-> newaction(p, text.then[i])]
        els == [i \in 1..Len(text.else) |-> newaction(p, text.else[i])]
        code == FirstCode(prs \o ths \o els, 1)
    IN
    IF Len(text.premises) = 0 \/ Len(text.then) = 0 THEN [code |-> 201, p |-> p]
    ELSE IF code # 0 THEN [code |-> code, p |-> p]
    ELSE [code |-> 0,
          p |-> [p EXCEPT !.Rule = Append(@,
                    [label |-> text.id,
                     Premises |-> [i \in 1..Len(prs) |-> prs[i].premise],
                     ThenActions |-> [i \in 1..Len(ths) |-> ths[i].action],
                     ElseActions |-> [i \in 1..Len(els) |-> els[i].action],
                     priority |-> text.priority,
                     isEnabled |-> TRUE])]]

----------------------------------------------------------------------------
(* The engine: reading a rule back.  A failing call writes no output, so    *)
(* the caller's slots keep the value they were initialised with.           *)

ZeroId == [id |-> ""]

ZeroCounts == [nPremises |-> 0, nThenActions |-> 0, nElseActions |-> 0, priority |-> 0]

ZeroPremise == [logop |-> 0, object |-> 0, objIndex |-> 0, variable |-> 0,
                relop |-> 0, status |-> 0, value |-> 0]

ZeroAction == [linkIndex |-> 0, status |-> 0, setting |-> 0]

ZeroEnabled == [enabled |-> 0]

ValidRule(p, ruleIndex) == ruleIndex >= 1 /\ ruleIndex <= Len(p.Rule)

EN_getruleID(p, ruleIndex) ==
    IF ~ValidRule(p, ruleIndex) THEN [code |-> 257, out |-> ZeroId]
    ELSE [code |-> 0, out |-> [id |-> p.Rule[ruleIndex].label]]

EN_getrule(p, ruleIndex) ==
    IF ~ValidRule(p, ruleIndex) THEN [code |-> 257, out |-> ZeroCounts]
    ELSE [code |-> 0,
          out |-> [nPremises |-> Len(p.Rule[ruleIndex].Premises),
                   nThenActions |-> Len(p.Rule[ruleIndex].ThenActions),
                   nElseActions |-> Len(p.Rule[ruleIndex].ElseActions),
                   priority |-> p.Rule[ruleIndex].priority]]

EN_getpremise(p, ruleIndex, premiseIndex) ==
    IF ~ValidRule(p, ruleIndex) THEN [code |-> 257, out |-> ZeroPremise]
    ELSE IF premiseIndex < 1 \/ premiseIndex > Len(p.Rule[ruleIndex].Premises)
         THEN [code |-> 258, out |-> ZeroPremise]
    ELSE LET pr == p.Rule[ruleIndex].Premises[premiseIndex]
         IN [code |-> 0,
             out |-> [logop |-> pr.logop, object |-> pr.object, objIndex |-> pr.index,
                      variable |-> pr.variable, relop |-> pr.relop,
                      status |-> pr.status, value |-> pr.value]]

ActionOut(actions, actionIndex) ==
    IF actionIndex < 1 \/ actionIndex > Len(actions)
    THEN [code |-> 258, out |-> ZeroAction]
    ELSE [code |-> 0,
          out |-> [linkIndex |-> actions[actionIndex].link,
                   status |-> actions[actionIndex].status,
                   setting |-> actions[actionIndex].setting]]

EN_getthenaction(p, ruleIndex, actionIndex) ==
    IF ~ValidRule(p, ruleIndex) THEN [code |-> 257, out |-> ZeroAction]
    ELSE ActionOut(p.Rule[ruleIndex].ThenActions, actionIndex)

EN_getelseaction(p, ruleIndex, actionIndex) ==
    IF ~ValidRule(p, ruleIndex) THEN [code |-> 257, out |-> ZeroAction]
    ELSE ActionOut(p.Rule[ruleIndex].ElseActions, actionIndex)

EN_getruleenabled(p, ruleIndex) ==
    IF ~ValidRule(p, ruleIndex) THEN [code |-> 257, out |-> ZeroEnabled]
    ELSE [code |-> 0, out |-> [enabled |-> IF p.Rule[ruleIndex].isEnabled THEN 1 ELSE 0]]

----------------------------------------------------------------------------
(* The FFI boundary seen from get_rule.  env names at most one call of a    *)
(* get_rule run on which the engine deviates: it returns env.code, leaves   *)
(* the output slots unwritten on failure unless env.written, and may put    *)
(* env.value into the output slot env.field.                               *)

NoEnv == [fn |-> "", i |-> 0, code |-> 0, written |-> FALSE, field |-> "", value |-> 0]

ffi(env, fn, i, r, zero) ==
    IF env.fn = fn /\ env.i = i
    THEN LET out1 == IF env.code # 0 /\ ~env.written THEN zero ELSE r.out
         IN [code |-> env.code,
             out |-> IF env.field \in DOMAIN out1
                     THEN [out1 EXCEPT ![env.field] = env.value] ELSE out1]
    ELSE r

----------------------------------------------------------------------------
(* Wrapper enums (types/rule.rs) and their from_i32 decoding *)

None == "None"

Some(v) == [some |-> TRUE, val |-> v]

LogicalOperator == [IF |-> 1, AND |-> 2, OR |-> 3]

RuleObject == [Node |-> EN_RuleObject.Node, Link |-> EN_RuleObject.Link,
               System |-> EN_RuleObject.System]

RuleVariable ==
    [Demand |-> 0, Head |-> 1, Grade |-> 2, Level |-> 3, Pressure |-> 4, Flow |-> 5,
     Status |-> 6, Setting |-> 7, Power |-> 8, Time |-> 9, ClockTime |-> 10,
     FillTime |-> 11, DrainTime |-> 12]

RuleOperator ==
    [Eq |-> 0, Ne |-> 1, Le |-> 2, Ge |-> 3, Lt |-> 4, Gt |-> 5, Is |-> 6, Not |-> 7,
     Below |-> 8, Above |-> 9]

RuleStatus == [IsOpen |-> 1, IsClosed |-> 2, IsActive |-> 3]

\* enum_from_primitive!: Some(variant) for a known discriminant, else None.
from_i32(enum, x) ==
    IF \E v \in DOMAIN enum : enum[v] = x
    THEN CHOOSE v \in DOMAIN enum : enum[v] = x
    ELSE None

----------------------------------------------------------------------------
(* Wrapper: impls/rule.rs *)

\* Mutant: the engine's return code is dropped.
add_rule_always_ok(p, rule) ==
    [p |-> EN_addrule(p, rule).p, ret |-> Ok(Unit)]

add_rule(p, rule) ==
    LET r == EN_addrule(p, rule)
    IN [p |-> r.p,
        ret |-> IF r.code = 0 THEN Ok(Unit) ELSE EPANETError_from(r.code)]

\* Mutant: the engine's return code is dropped.
delete_rule_always_ok(p, index) ==
    [p |-> EN_deleterule(p, index).p, ret |-> Ok(Unit)]

delete_rule(p, index) ==
    LET r == EN_deleterule(p, index)
    IN [p |-> r.p,
        ret |-> IF r.code = 0 THEN Ok(Unit) ELSE EPANETError_from(r.code)]

get_rule_id(p, rule_index, env) ==
    LET r == ffi(env, "EN_getruleID", 0, EN_getruleID(p, rule_index), ZeroId)
    IN [code |-> r.code,
        ret |-> IF r.code = 0 THEN Ok(r.out.id) ELSE EPANETError_from(r.code)]

\* The enum fields are decoded, with expect, before the engine's return
\* code is looked at; only the premise status is decoded without expect.
get_premise(p, rule_index, premise_index, env) ==
    LET r == ffi(env, "EN_getpremise", premise_index,
                 EN_getpremise(p, rule_index, premise_index), ZeroPremise)
        logical_operator == from_i32(LogicalOperator, r.out.logop)
        rule_object == from_i32(RuleObject, r.out.object)
        variable == from_i32(RuleVariable, r.out.variable)
        rule_operator == from_i32(RuleOperator, r.out.relop)
        status == from_i32(RuleStatus, r.out.status)
    IN [code |-> r.code,
        ret |->
          IF logical_operator = None THEN Panic("Invalid logical operator")
          ELSE IF rule_object = None THEN Panic("Invalid rule object")
          ELSE IF variable = None THEN Panic("Invalid rule variable")
          ELSE IF rule_operator = None THEN Panic("Invalid rule operator")
          ELSE IF r.code = 0
               THEN Ok([logical_operator |-> logical_operator,
                        rule_object |-> rule_object,
                        object_index |-> r.out.objIndex,
                        variable |-> variable,
                        rule_operator |-> rule_operator,
                        status |-> status,
                        value |-> r.out.value])
               ELSE EPANETError_from(r.code)]

\* Shared body of get_then_action / get_else_action: the return code is
\* checked first, then the status is decoded with expect.
ActionClause(r) ==
    IF r.code = 0
    THEN IF from_i32(RuleStatus, r.out.status) = None
         THEN Panic("Invalid rule status")
         ELSE Ok([link_index |-> r.out.linkIndex,
                  status |-> from_i32(RuleStatus, r.out.status),
                  setting |-> r.out.setting])
    ELSE EPANETError_from(r.code)

get_then_action(p, rule_index, action_index, env) ==
    LET r == ffi(env, "EN_getthenaction", action_index,
                 EN_getthenaction(p, rule_index, action_index), ZeroAction)
    IN [code |-> r.code, ret |-> ActionClause(r)]

get_else_action(p, rule_index, action_index, env) ==
    LET r == ffi(env, "EN_getelseaction", action_index,
                 EN_getelseaction(p, rule_index, action_index), ZeroAction)
    IN [code |-> r.code, ret |-> ActionClause(r)]

get_rule_enabled(p, rule_index, env) ==
    LET r == ffi(env, "EN_getruleenabled", 0, EN_getruleenabled(p, rule_index), ZeroEnabled)
    IN [code |-> r.code,
        ret |-> IF r.code = 0 THEN Ok(r.out.enabled # 0) ELSE EPANETError_from(r.code)]

\* Mutant: an exclusive range, for i in 1..count.
ClauseRange_exclusive(count) == 1..(count - 1)

\* for i in 1..=count
ClauseRange(count) == 1..count

\* First clause index whose fetch did not return Ok (the loop returns
\* there), 0 when every fetch returned Ok.
FirstBad(results) ==
    LET bad == {i \in DOMAIN results : results[i].ret.kind # "Ok"}
    IN IF bad = {} THEN 0 ELSE CHOOSE i \in bad : \A j \in bad : i <= j

\* The clause indices fetched by one of get_rule's loops, in order.
Fetched(results) ==
    IF FirstBad(results) = 0 THEN Len(results) ELSE FirstBad(results)

CallsOf(fn, results) ==
    [i \in 1..Fetched(results) |-> [fn |-> fn, i |-> i, code |-> results[i].code]]

Values(results) == [i \in 1..Len(results) |-> results[i].ret.val]

\* else_actions: None for an empty vector, Some(vector) otherwise.
ElseOption(else_actions) ==
    IF Len(else_actions) = 0 THEN [some |-> FALSE, val |-> <<>>] ELSE Some(else_actions)

\* The priority field of the Rule that get_rule builds.
RulePriority(out_priority) == [some |-> FALSE, val |-> 0]

get_rule(p, index, env) ==
    LET id == get_rule_id(p, index, env)
        c1 == <<[fn |-> "EN_getruleID", i |-> 0, code |-> id.code]>>
        gr == ffi(env, "EN_getrule", 0, EN_getrule(p, index), ZeroCounts)
        c2 == c1 \o <<[fn |-> "EN_getrule", i |-> 0, code |-> gr.code]>>
        prem == [i \in ClauseRange(gr.out.nPremises) |-> get_premise(p, index, i, env)]
        c3 == c2 \o CallsOf("EN_getpremise", prem)
        then == [i \in ClauseRange(gr.out.nThenActions) |-> get_then_action(p, index, i, env)]
        c4 == c3 \o CallsOf("EN_getthenaction", then)
        else == [i \in ClauseRange(gr.out.nElseActions) |-> get_else_action(p, index, i, env)]
        c5 == c4 \o CallsOf("EN_getelseaction", else)
        en == get_rule_enabled(p, index, env)
        c6 == c5 \o <<[fn |-> "EN_getruleenabled", i |-> 0, code |-> en.code]>>
    IN
    IF id.ret.kind # "Ok" THEN [ret |-> id.ret, calls |-> c1]
    ELSE IF gr.code # 0 THEN [ret |-> EPANETError_from(gr.code), calls |-> c2]
    ELSE IF FirstBad(prem) # 0 THEN [ret |-> prem[FirstBad(prem)].ret, calls |-> c3]
    ELSE IF FirstBad(then) # 0 THEN [ret |-> then[FirstBad(then)].ret, calls |-> c4]
    ELSE IF FirstBad(else) # 0 THEN [ret |-> else[FirstBad(else)].ret, calls |-> c5]
    ELSE IF en.ret.kind # "Ok" THEN [ret |-> en.ret, calls |-> c6]
    ELSE [ret |-> Ok([rule_id |-> id.ret.val,
                      premises |-> Values(prem),
                      then_actions |-> Values(then),
                      else_actions |-> ElseOption(Values(else)),
                      priority |-> RulePriority(gr.out.priority),
                      enabled |-> en.ret.val]),
          calls |-> c6]

----------------------------------------------------------------------------
(* Wrapper: impls/link.rs, impls/node.rs, impls/project.rs *)

delete_link(p, index, action_code_type) ==
    LET r == EN_deletelink(p, index, ActionCodeType_as_i32(action_code_type))
    IN [p |-> r.p,
        ret |-> IF r.code = 0 THEN Ok(Unit) ELSE EPANETError_from(r.code)]

\* Mutant: the index is passed on as if the engine counted from 0.
delete_node_zero_based(p, id, action_code) ==
    LET r == EN_deletenode(p, id - 1, ActionCodeType_as_i32(action_code))
    IN [p |-> r.p,
        ret |-> check_error_with_context(r.code, <<"Failed to delete node", id>>)]

delete_node(p, id, action_code) ==
    LET r == EN_deletenode(p, id, ActionCodeType_as_i32(action_code))
    IN [p |-> r.p,
        ret |-> check_error_with_context(r.code, <<"Failed to delete node", id>>)]

\* Mutant: the output slot is returned without looking at the return code.
get_link_index_unchecked(p, id) == Ok(EN_getlinkindex(p, id).index)

get_link_index(p, id) ==
    LET r == EN_getlinkindex(p, id)
    IN IF r.code = 0 THEN Ok(r.index) ELSE EPANETError_from(r.code)

get_node_index(p, id) ==
    LET r == EN_getnodeindex(p, id)
        checked == check_error_with_context(r.code, <<"Failed to get index for node", id>>)
    IN IF IsOkResult(checked) THEN Ok(r.index) ELSE checked

get_count(p, count_type) ==
    LET r == EN_getcount(p, count_type)
    IN IF r.code = 0 THEN Ok(r.count) ELSE EPANETError_from(r.code)

----------------------------------------------------------------------------
(* Inputs: the networks a project is opened on, and the rule texts *)

Junction(id) == [ID |-> id, Type |-> "Junction"]

Tank(id) == [ID |-> id, Type |-> "Tank"]

Pipe(id, n1, n2) == [ID |-> id, N1 |-> n1, N2 |-> n2]

SimpleControl(type, link, node, setting, level) ==
    [Type |-> type, Link |-> link, Node |-> node, Setting |-> setting,
     Grade |-> level, isEnabled |-> TRUE]

\* Junctions precede tanks in the engine's node array.
InitNodes == <<Junction("10"), Junction("23"), Tank("2")>>

InitLinks ==
    { <<Pipe("22", 2, 1), Pipe("113", 2, 3), Pipe("9", 1, 3), Pipe("31", 1, 3)>> }

InitControls ==
    { <<>>,
      <<SimpleControl("LowLevel", 3, 3, 1, 110), SimpleControl("Timer", 1, 0, 0, 3600),
        SimpleControl("HiLevel", 4, 2, 0, 140)>> }

PremiseLine(logop, object, id, variable, relop, word, number) ==
    [logop |-> logop, object |-> object, id |-> id, variable |-> variable,
     relop |-> relop, word |-> word, number |-> number]

ActionLine(id, attr, word, number) ==
    [object |-> "LINK", id |-> id, attr |-> attr, word |-> word, number |-> number]

RuleText(id, premises, then, else, priority) ==
    [id |-> id, premises |-> premises, then |-> then, else |-> else,
     priority |-> priority]

\* RULE 1 / IF NODE 2 LEVEL < 100 / THEN LINK 9 STATUS = OPEN
R1 == RuleText("1",
        <<PremiseLine("IF", "NODE", "2", "LEVEL", "<", "", 100)>>,
        <<ActionLine("9", "STATUS", "OPEN", 0)>>, <<>>, 0)

\* RULE 2 / IF SYSTEM TIME = 4 / THEN LINK 9 STATUS = CLOSED / AND LINK 31 STATUS = CLOSED
R2 == RuleText("2",
        <<PremiseLine("IF", "SYSTEM", "", "TIME", "=", "", 4)>>,
        <<ActionLine("9", "STATUS", "CLOSED", 0), ActionLine("31", "STATUS", "CLOSED", 0)>>,
        <<>>, 0)

\* RULE 3 / IF NODE 23 PRESSURE ABOVE 140 / AND NODE 2 LEVEL > 120 /
\* THEN LINK 113 STATUS = CLOSED / ELSE LINK 22 STATUS = CLOSED / PRIORITY 3
R3 == RuleText("3",
        <<PremiseLine("IF", "NODE", "23", "PRESSURE", "ABOVE", "", 140),
          PremiseLine("AND", "NODE", "2", "LEVEL", ">", "", 120)>>,
        <<ActionLine("113", "STATUS", "CLOSED", 0)>>,
        <<ActionLine("22", "STATUS", "CLOSED", 0)>>, 3)

\* RULE 4 / IF LINK 22 STATUS IS OPEN / THEN LINK 31 SETTING = 2
R4 == RuleText("4",
        <<PremiseLine("IF", "LINK", "22", "STATUS", "IS", "OPEN", 0)>>,
        <<ActionLine("31", "SETTING", "", 2)>>, <<>>, 0)

\* RULE 5 / IF NODE 10 COLOUR < 1 / THEN LINK 9 STATUS = OPEN   (unknown variable)
R5 == RuleText("5",
        <<PremiseLine("IF", "NODE", "10", "COLOUR", "<", "", 1)>>,
        <<ActionLine("9", "STATUS", "OPEN", 0)>>, <<>>, 0)

RuleTexts == {R1, R2, R3, R4, R5}

NoText == RuleText("", <<>>, <<>>, <<>>, 0)

\* Deviations of the engine on one call of a get_rule run.
Fail(fn, i, code, written) ==
    [fn |-> fn, i |-> i, code |-> code, written |-> written, field |-> "", value |-> 0]

Emit(fn, field, value) ==
    [fn |-> fn, i |-> 1, code |-> 0, written |-> TRUE, field |-> field, value |-> value]

Envs ==
    { Fail(fn, 0, 257, FALSE) : fn \in {"EN_getruleID", "EN_getrule", "EN_getruleenabled"} }
    \cup { Fail(fn, 1, 258, w) : fn \in {"EN_getpremise", "EN_getthenaction", "EN_getelseaction"},
                                 w \in BOOLEAN }
    \cup { Emit("EN_getpremise", f, 99) : f \in {"logop", "object", "variable", "relop", "status"} }
    \cup { Emit(fn, "status", 99) : fn \in {"EN_getthenaction", "EN_getelseaction"} }

----------------------------------------------------------------------------
(* The engine's hydraulic and quality solvers (EN_openH .. EN_closeQ).      *)
(* Their code is behind the FFI boundary; the solver states and the state   *)
(* checks are taken from the specification's state machine, the error       *)
(* codes and the clock arithmetic from the engine's documented behaviour,   *)
(* and the calls the wrapper's tests make must succeed as the tests assert. *)

\* Bounds: the longest simulation duration and hydraulic time step offered.
MaxDur == 2

MaxHstep == 2

\* The flow field before any hydraulic solution has been computed.
NoFlow == -1

\* The engine's quality time step (the smallest unit of the clock).
Qstep == 1

SolverStates == {"Closed", "Opened", "Initialized", "Stepping"}

\* A project as loaded from an input file: both solvers closed, clocks at 0.
NewAnalysis(dur, hstep) ==
    [H |-> "Closed", Q |-> "Closed", Dur |-> dur, Hstep |-> hstep,
     Htime |-> 0, Qtime |-> 0, flow |-> NoFlow, qflow |-> NoFlow, qual |-> <<>>,
     SaveHflag |-> FALSE, hydfile |-> <<>>, fpos |-> 1,
     Control |-> <<>>, LinkSetting |-> <<>>]

Min(a, b) == IF a <= b THEN a ELSE b

\* The setting every link of the input network starts a run with.
InitSetting == 1

\* The enabled timer controls of the project the solver works on.
TimerControls(e) ==
    {i \in 1..Len(e.Control) : e.Control[i].Type = "Timer" /\ e.Control[i].isEnabled}

\* controltimestep: the time until the next timer control fires, tstep if none does
\* before.  Level controls need tank levels, which the model does not hold.
controltimestep(e, tstep) ==
    LET ahead == {e.Control[i].Grade - e.Htime : i \in TimerControls(e)} \cap 1..tstep
    IN IF ahead = {} THEN tstep ELSE CHOOSE t \in ahead : \A u \in ahead : t <= u

\* controls(): every enabled timer control whose time is the current time sets
\* the setting of its link; of two on the same link the later one prevails.
applycontrols(e) ==
    [k \in 1..Len(e.LinkSetting) |->
        LET due == {i \in TimerControls(e) :
                      e.Control[i].Link = k /\ e.Control[i].Grade = e.Htime}
        IN IF due = {} THEN e.LinkSetting[k]
           ELSE e.Control[CHOOSE i \in due : \A j \in due : j <= i].Setting]

\* Time until the next hydraulic event: a full step, what is left of the
\* duration, or the time until a timer control fires.
timestep(e) == controltimestep(e, Min(e.Hstep, e.Dur - e.Htime))

EN_openH(e) ==
    [code |-> 0, e |-> [e EXCEPT !.H = "Opened", !.SaveHflag = FALSE]]

EN_initH(e, initFlag) ==
    IF e.H # "Opened"
    THEN [code |-> 103, e |-> e]
    ELSE [code |-> 0,
          e |-> [e EXCEPT !.H = "Initialized", !.Htime = 0,
                          !.LinkSetting = [k \in 1..Len(@) |-> InitSetting],
                          !.flow = IF initFlag \div 10 > 0 THEN NoFlow ELSE @,
                          !.SaveHflag = (initFlag % 10 > 0),
                          !.hydfile = IF initFlag % 10 > 0 THEN <<>> ELSE @]]

EN_runH(e) ==
    IF e.H \notin {"Initialized", "Stepping"}
    THEN [code |-> 103, e |-> e, out |-> 0]
    ELSE [code |-> 0, out |-> e.Htime,
          e |-> [e EXCEPT !.H = "Stepping", !.flow = e.Htime,
                          !.LinkSetting = applycontrols(e)]]

EN_nextH(e) ==
    IF e.H \notin {"Initialized", "Stepping"}
    THEN [code |-> 103, e |-> e, out |-> 0]
    ELSE LET hydstep == IF e.Htime < e.Dur THEN timestep(e) ELSE 0
             saved == IF e.SaveHflag
                      THEN Append(e.hydfile,
                                  [t |-> e.Htime, flow |-> e.flow, step |-> hydstep])
                      ELSE e.hydfile
         IN [code |-> 0, out |-> hydstep,
             e |-> [e EXCEPT !.hydfile = saved,
                             !.Htime = IF e.Htime < e.Dur THEN @ + hydstep ELSE @ + 1,
                             !.Qtime = IF e.Htime < e.Dur \/ e.Q = "Closed"
                                       THEN @ ELSE @ + 1]]

EN_closeH(e) == [code |-> 0, e |-> [e EXCEPT !.H = "Closed"]]

\* The run/next loop of EN_solveH: do { runH; nextH } while (tstep > 0).
RECURSIVE HLoop(_)
HLoop(e) ==
    LET r == EN_runH(e)
        n == EN_nextH(r.e)
    IN IF r.code # 0 THEN [code |-> r.code, e |-> r.e]
       ELSE IF n.code # 0 THEN [code |-> n.code, e |-> n.e]
       ELSE IF n.out > 0 THEN HLoop(n.e)
       ELSE [code |-> 0, e |-> n.e]

EN_solveH(e) ==
    LET o == EN_openH(e)
        i == EN_initH(o.e, 1)
        l == HLoop(i.e)
        c == EN_closeH(l.e)
    IN IF o.code # 0 THEN [code |-> o.code, e |-> o.e]
       ELSE IF i.code # 0 THEN [code |-> i.code, e |-> EN_closeH(i.e).e]
       ELSE [code |-> l.code, e |-> c.e]

EN_openQ(e) ==
    IF e.H = "Closed" /\ ~e.SaveHflag
    THEN [code |-> 104, e |-> e]
    ELSE [code |-> 0, e |-> [e EXCEPT !.Q = "Opened"]]

EN_initQ(e, saveFlag) ==
    IF e.Q # "Opened"
    THEN [code |-> 105, e |-> e]
    ELSE [code |-> 0,
          e |-> [e EXCEPT !.Q = "Initialized", !.Qtime = 0, !.qual = <<>>,
                          !.qflow = NoFlow, !.fpos = 1,
                          !.Htime = IF e.H = "Closed" THEN 0 ELSE @]]

\* Take the hydraulics of the period that starts now: from the solver's
\* memory while the hydraulic solver is open, else from the saved results.
runqual(e) ==
    IF e.Qtime # e.Htime THEN [code |-> 0, e |-> e]
    ELSE IF e.H # "Closed" THEN [code |-> 0, e |-> [e EXCEPT !.qflow = e.flow]]
    ELSE IF e.fpos > Len(e.hydfile) THEN [code |-> 307, e |-> e]
    ELSE LET rec == e.hydfile[e.fpos]
         IN [code |-> 0,
             e |-> [e EXCEPT !.qflow = rec.flow, !.Htime = rec.t + rec.step,
                             !.fpos = @ + 1]]

\* Route quality over dt with the flow field the quality solver holds.
transport(e, dt) ==
    IF dt <= 0 THEN e
    ELSE IF e.qual # <<>> /\ e.qual[Len(e.qual)][1] = e.qflow
    THEN [e EXCEPT !.qual[Len(e.qual)] = <<e.qflow, @[2] + dt>>]
    ELSE [e EXCEPT !.qual = Append(@, <<e.qflow, dt>>)]

EN_runQ(e) ==
    IF e.Q \notin {"Initialized", "Stepping"}
    THEN [code |-> 105, e |-> e, out |-> 0]
    ELSE LET r == runqual(e)
         IN [code |-> r.code, out |-> e.Qtime, e |-> [r.e EXCEPT !.Q = "Stepping"]]

EN_nextQ(e) ==
    IF e.Q \notin {"Initialized", "Stepping"}
    THEN [code |-> 105, e |-> e, out |-> 0]
    ELSE LET hydstep == IF e.Htime <= e.Dur THEN e.Htime - e.Qtime ELSE 0
         IN [code |-> 0, out |-> hydstep,
             e |-> [transport(e, hydstep) EXCEPT !.Qtime = @ + hydstep]]

\* One quality time step, fetching new hydraulics when the step crosses a
\* hydraulic event.
RECURSIVE stepqual(_, _)
stepqual(e, tstep) ==
    LET hstep == e.Htime - e.Qtime
    IN IF hstep < tstep
       THEN LET moved == [transport(e, hstep) EXCEPT !.Qtime = @ + hstep]
                r == runqual(moved)
            IN IF r.code # 0 THEN r
               ELSE IF tstep - hstep > 0 THEN stepqual(r.e, tstep - hstep)
               ELSE r
       ELSE [code |-> 0, e |-> [transport(e, tstep) EXCEPT !.Qtime = @ + tstep]]

EN_stepQ(e) ==
    IF e.Q \notin {"Initialized", "Stepping"}
    THEN [code |-> 105, e |-> e, out |-> 0]
    ELSE LET r == stepqual(e, Qstep)
         IN [code |-> r.code, out |-> r.e.Dur - r.e.Qtime, e |-> r.e]

EN_closeQ(e) == [code |-> 0, e |-> [e EXCEPT !.Q = "Closed"]]

\* The run/next loop of EN_solveQ: do { runQ; nextQ } while (tstep > 0).
RECURSIVE QLoop(_)
QLoop(e) ==
    LET r == EN_runQ(e)
        n == EN_nextQ(r.e)
    IN IF r.code # 0 THEN [code |-> r.code, e |-> r.e]
       ELSE IF n.code # 0 THEN [code |-> n.code, e |-> n.e]
       ELSE IF n.out > 0 THEN QLoop(n.e)
       ELSE [code |-> 0, e |-> n.e]

EN_solveQ(e) ==
    LET o == EN_openQ(e)
        i == EN_initQ(o.e, 1)
        l == QLoop(i.e)
        c == EN_closeQ(l.e)
    IN IF o.code # 0 THEN [code |-> o.code, e |-> o.e]
       ELSE IF i.code # 0 THEN [code |-> i.code, e |-> EN_closeQ(i.e).e]
       ELSE [code |-> l.code, e |-> c.e]

\* Transfer the saved hydraulic results to the output file: a quality run with
\* quality analysis switched off.
EN_saveH(e) ==
    IF ~e.SaveHflag
    THEN [code |-> 104, e |-> e]
    ELSE LET r == EN_solveQ(e)
         IN [code |-> r.code, e |-> [r.e EXCEPT !.qual = <<>>]]

----------------------------------------------------------------------------
(* The wrapper's hydraulic and quality analysis calls                       *)
(* (src/src/impls/hydraulic.rs, src/src/impls/quality.rs)                   *)

InitHydOption == [NoSave |-> 0, Save |-> 1, InitFlow |-> 10, SaveAndInit |-> 11]

\* `as u64` of the engine's signed time: the value modulo the width of u64
\* (the width is scaled down; only the wrap-around of negative values matters).
U64Modulus == 65536

as_u64(x) == x % U64Modulus

\* match code { 0 => Ok(()), x => Err(EPANETError::from(x)) }
unit_result(code) == IF code = 0 THEN Ok(Unit) ELSE EPANETError_from(code)

\* match code { 0 => Ok(out.assume_init() as u64), x => Err(EPANETError::from(x)) }
time_result(code, out) == IF code = 0 THEN Ok(as_u64(out)) ELSE EPANETError_from(code)

open_h(e) ==
    LET r == EN_openH(e) IN [e |-> r.e, ret |-> unit_result(r.code)]

init_h(e, init_flag) ==
    LET r == EN_initH(e, InitHydOption[init_flag])
    IN [e |-> r.e, ret |-> unit_result(r.code)]

\* Mutant: solve_h that only opens the hydraulic solver.
solve_h_opens_only(e) ==
    LET r == EN_openH(e) IN [e |-> r.e, ret |-> unit_result(r.code)]

solve_h(e) ==
    LET r == EN_solveH(e) IN [e |-> r.e, ret |-> unit_result(r.code)]

\* Mutant: run_h that returns the clock without running the solver.
run_h_skipped(e) == [e |-> e, ret |-> time_result(0, e.Htime)]

run_h(e) ==
    LET r == EN_runH(e) IN [e |-> r.e, ret |-> time_result(r.code, r.out)]

\* Mutant: next_h that returns the clock instead of the step.
next_h_as_clock(e) ==
    LET r == EN_nextH(e) IN [e |-> r.e, ret |-> time_result(r.code, r.e.Htime)]

next_h(e) ==
    LET r == EN_nextH(e) IN [e |-> r.e, ret |-> time_result(r.code, r.out)]

save_h(e) ==
    LET r == EN_saveH(e) IN [e |-> r.e, ret |-> unit_result(r.code)]

close_h(e) ==
    LET r == EN_closeH(e) IN [e |-> r.e, ret |-> unit_result(r.code)]

close_q(e) ==
    LET r == EN_closeQ(e) IN [e |-> r.e, ret |-> unit_result(r.code)]

\* Mutant: init_q that initialises the hydraulic solver.
init_q_as_init_h(e, save_flag) ==
    LET r == EN_initH(e, InitHydOption[save_flag])
    IN [e |-> r.e, ret |-> unit_result(r.code)]

\* Mutant: init_q that reports success without calling the engine.
init_q_skipped(e, save_flag) == [e |-> e, ret |-> unit_result(0)]

init_q(e, save_flag) ==
    LET r == EN_initQ(e, InitHydOption[save_flag])
    IN [e |-> r.e, ret |-> unit_result(r.code)]

\* Mutant: next_q that advances the hydraulic solver.
next_q_as_next_h(e) ==
    LET r == EN_nextH(e) IN [e |-> r.e, ret |-> time_result(r.code, r.out)]

next_q(e) ==
    LET r == EN_nextQ(e) IN [e |-> r.e, ret |-> time_result(r.code, r.out)]

open_q(e) ==
    LET r == EN_openQ(e) IN [e |-> r.e, ret |-> unit_result(r.code)]

\* Mutant: run_q that does not look at the engine's return code.
run_q_unchecked(e) ==
    LET r == EN_runQ(e) IN [e |-> r.e, ret |-> Ok(as_u64(r.out))]

\* Mutant: run_q that never reaches the engine.
run_q_skipped(e) == [e |-> e, ret |-> Ok(as_u64(0))]

run_q(e) ==
    LET r == EN_runQ(e) IN [e |-> r.e, ret |-> time_result(r.code, r.out)]

solve_q(e) ==
    LET r == EN_solveQ(e) IN [e |-> r.e, ret |-> unit_result(r.code)]

\* Mutant: step_q that calls the engine's next instead of its step.
step_q_as_next_q(e) ==
    LET r == EN_nextQ(e) IN [e |-> r.e, ret |-> time_result(r.code, r.out)]

step_q(e) ==
    LET r == EN_stepQ(e) IN [e |-> r.e, ret |-> time_result(r.code, r.out)]

----------------------------------------------------------------------------
(* The callers of the stepping calls: the loops of the wrapper's tests      *)
(* (test_hyd_step, test_progressive_step, test_solve_q_step, after_step),   *)
(* followed call by call.  obs holds the caller's position in each loop,    *)
(* the values it accumulated, and the assertions that failed.               *)

NoObs ==
    [test |-> "none", hl |-> "none", hsum |-> 0, hiter |-> 0,
     cl |-> "none", dt |-> 0, snap |-> <<>>, re |-> FALSE,
     sl |-> "none", left |-> 0, pleft |-> 0, fail |-> {}]

ValOf(ret) == IF ret.kind = "Ok" THEN ret.val ELSE 0

QualityOps == {"open_q", "init_q", "run_q", "next_q", "step_q", "solve_q", "close_q"}

\* test_hyd_step: open_h; init_h; loop { run_h; next_h; if next <= 0 break }; close_h
HydLoop(o, op, ret) ==
    CASE op = "init_h" ->
            [o EXCEPT !.hl = IF IsOkResult(ret) THEN "head" ELSE "none",
                      !.hsum = 0, !.hiter = 0]
      [] op = "run_h" /\ o.hl = "head" -> [o EXCEPT !.hl = "body"]
      [] op = "next_h" /\ o.hl = "body" ->
            [o EXCEPT !.hl = IF ValOf(ret) <= 0 THEN "done" ELSE "head",
                      !.hsum = @ + ValOf(ret), !.hiter = @ + 1]
      [] op \in QualityOps -> o
      [] OTHER -> [o EXCEPT !.hl = "none", !.hsum = 0, !.hiter = 0]

HydLoopAsserts(o, op) ==
    \/ op = "run_h" /\ o.hl = "head"
    \/ op = "next_h" /\ o.hl = "body"
    \/ op = "close_h" /\ o.hl = "done"

\* test_progressive_step: open_h; init_h; open_q; init_q; [open_q; init_q;]
\* loop { run_h; run_q; next_h; next_q; if next_h <= 0 break }; close_h; close_q.
\* "a1".."a4": an iteration that calls run_q before run_h;
\* "b2".."b4": an iteration that calls next_q before run_q.
CoupledNext(o, op, ret) ==
    CASE o.cl = "0" /\ op = "run_h" -> "1"
      [] o.cl = "1" /\ op = "run_q" -> "2"
      [] o.cl = "2" /\ op = "next_h" -> "3"
      [] o.cl = "3" /\ op = "next_q" -> IF o.dt <= 0 THEN "end" ELSE "0"
      [] o.cl = "end" /\ op = "close_h" -> "endh"
      [] o.cl = "0" /\ op = "run_q" -> "a1"
      [] o.cl = "a1" /\ op = "run_h" -> "a2"
      [] o.cl = "a2" /\ op = "next_h" -> "a3"
      [] o.cl = "a3" /\ op = "next_q" -> "a4"
      [] o.cl = "1" /\ op = "next_h" -> "b2"
      [] o.cl = "b2" /\ op = "next_q" -> "b3"
      [] o.cl = "b3" /\ op = "run_q" -> "b4"
      [] OTHER -> "none"

CoupledLoop(o, op, ret, h, after) ==
    IF op = "init_q"
    THEN IF IsOkResult(ret) /\ after.H = "Initialized" /\ h.hl = "head"
         THEN [h EXCEPT !.cl = "0", !.dt = 0,
                        !.snap = IF o.snap = <<>> THEN <<after>> ELSE o.snap,
                        !.re = (o.snap # <<>>)]
         ELSE [h EXCEPT !.cl = "none", !.dt = 0, !.snap = <<>>, !.re = FALSE]
    ELSE IF op = "open_q" /\ o.cl = "0" /\ IsOkResult(ret)
    THEN [h EXCEPT !.cl = "none", !.dt = 0]
    ELSE LET c == CoupledNext(o, op, ret)
         IN [h EXCEPT !.cl = c,
                      !.dt = IF c = "none" THEN 0
                             ELSE IF op = "next_h" THEN ValOf(ret) ELSE @,
                      !.snap = <<>>,
                      !.re = IF c = "none" THEN FALSE ELSE @]

CoupledAsserts(o, op) ==
    /\ o.cl \in {"0", "1", "2", "3", "end", "endh"}
    /\ \/ CoupledNext(o, op, Ok(0)) \in {"0", "1", "2", "3", "end", "endh"}
       \/ o.cl = "endh" /\ op = "close_q"
       \/ o.cl = "0" /\ op = "open_q"

DeviationAsserts(o, op) ==
    CoupledNext(o, op, Ok(0)) \in {"a1", "a2", "a3", "a4", "b2", "b3", "b4"}

\* test_solve_q / test_hydraulics_save: solve_h; save_h | solve_q.
\* test_solve_q_step, after_step: solve_h; open_q; init_q;
\* loop { run_q; step_q; if step <= 0 || t >= t_stop break }; close_q.
SolveNext(o, op, ret, before) ==
    CASE op = "solve_h" /\ before.H = "Closed" -> "solved"
      [] o.sl = "solved" /\ op \in {"save_h", "solve_q"} -> "solved"
      [] o.sl = "solved" /\ op = "open_q" -> "opened"
      [] o.sl = "opened" /\ op = "init_q" -> "head"
      [] o.sl = "head" /\ op = "run_q" -> "body"
      [] o.sl = "body" /\ op = "step_q" -> IF ValOf(ret) <= 0 THEN "done" ELSE "head"
      [] o.sl = "head" /\ op = "close_q" /\ o.pleft # 0 -> "early"
      [] o.sl = "done" /\ op = "close_q" -> "closed"
      [] OTHER -> "none"

SolveLoop(o, op, ret, h, before) ==
    LET s == SolveNext(o, op, ret, before)
    IN [h EXCEPT !.sl = s,
                 !.left = IF s \in {"none", "early", "closed"} THEN 0
                          ELSE IF op = "init_q" THEN before.Dur + 1
                          ELSE IF op = "step_q" THEN ValOf(ret) ELSE @,
                 !.pleft = IF s \in {"none", "early", "closed"} THEN 0
                           ELSE IF op = "step_q" THEN o.left ELSE @]

SolveAsserts(o, op, before) ==
    \/ op = "solve_h" /\ before.H = "Closed"
    \/ o.sl = "solved" /\ op \in {"save_h", "solve_q"}

StepQAsserts(o, op) ==
    \/ o.sl = "solved" /\ op = "open_q"
    \/ o.sl = "opened" /\ op = "init_q"
    \/ o.sl = "head" /\ op \in {"run_q"}
    \/ o.sl = "body" /\ op = "step_q"
    \/ o.sl = "head" /\ op = "close_q" /\ o.pleft # 0
    \/ o.sl = "done" /\ op = "close_q"

\* The assertions (assert!(result.is_ok())) that fail on this call.
Failed(o, op, ret, before) ==
    IF IsOkResult(ret) THEN {}
    ELSE {x \in {"h", "c", "d", "s", "t"} :
            \/ x = "h" /\ HydLoopAsserts(o, op)
            \/ x = "c" /\ CoupledAsserts(o, op)
            \/ x = "d" /\ DeviationAsserts(o, op)
            \/ x = "s" /\ SolveAsserts(o, op, before)
            \/ x = "t" /\ StepQAsserts(o, op)}

Observe(o, op, ret, before, after) ==
    LET h == HydLoop(o, op, ret)
        c == CoupledLoop(o, op, ret, h, after)
        s == SolveLoop(o, op, ret, c, before)
    IN [s EXCEPT !.fail = @ \cup Failed(o, op, ret, before)]

----------------------------------------------------------------------------
(* The state machine: one action per wrapper call *)

Call(op, index, action, text, env, ret, calls) ==
    [op |-> op, index |-> index, action |-> action, text |-> text, env |-> env,
     ret |-> ret, calls |-> calls]

Init ==
    /\ \E links \in InitLinks, controls \in InitControls :
          ph = [Node |-> InitNodes, Link |-> links, Control |-> controls, Rule |-> <<>>, Curve |-> <<>>]
    /\ pre = ph
    /\ last = Call("new", 0, "", NoText, NoEnv, Ok(Unit), <<>>)
    /\ sim = NewAnalysis(1, 1)
    /\ psim = sim
    /\ obs = NoObs
    /\ held = <<>>
    /\ life = <<>>

AddRule(text) ==
    /\ Len(ph.Rule) < MaxRules
    /\ LET r == add_rule(ph, text)
       IN /\ ph' = r.p
          /\ pre' = ph
          /\ last' = Call("add_rule", 0, "", text, NoEnv, r.ret, <<>>)
          /\ UNCHANGED analysis

DeleteRule(index) ==
    LET r == delete_rule(ph, index)
    IN /\ ph' = r.p
       /\ pre' = ph
       /\ last' = Call("delete_rule", index, "", NoText, NoEnv, r.ret, <<>>)
       /\ UNCHANGED analysis

GetRule(index) ==
    LET r == get_rule(ph, index, NoEnv)
    IN /\ ph' = ph
       /\ pre' = ph
       /\ last' = Call("get_rule", index, "", NoText, NoEnv, r.ret, r.calls)
       /\ UNCHANGED analysis

GetRuleFault(index, env) ==
    LET r == get_rule(ph, index, env)
    IN /\ ph' = ph
       /\ pre' = ph
       /\ last' = Call("get_rule", index, "", NoText, env, r.ret, r.calls)
       /\ UNCHANGED analysis

DeleteLink(index, action_code) ==
    LET r == delete_link(ph, index, action_code)
    IN /\ ph' = r.p
       /\ pre' = ph
       /\ last' = Call("delete_link", index, action_code, NoText, NoEnv, r.ret, <<>>)
       /\ UNCHANGED analysis

DeleteNode(index, action_code) ==
    LET r == delete_node(ph, index, action_code)
    IN /\ ph' = r.p
       /\ pre' = ph
       /\ last' = Call("delete_node", index, action_code, NoText, NoEnv, r.ret, <<>>)
       /\ UNCHANGED analysis

Next ==
    \/ \E text \in RuleTexts : AddRule(text)
    \/ \E index \in 0..(Len(ph.Rule) + 1) : DeleteRule(index)
    \/ \E index \in 0..(Len(ph.Rule) + 1) : GetRule(index)
    \/ \E index \in 0..(Len(ph.Link) + 1), ac \in ActionCodes : DeleteLink(index, ac)
    \/ \E index \in 0..(Len(ph.Node) + 1), ac \in ActionCodes : DeleteNode(index, ac)

Spec == Init /\ [][Next]_vars

\* The same program on an engine that may deviate on one call of get_rule.
NextFault ==
    \/ Next
    \/ \E index \in 1..Len(ph.Rule), env \in Envs : GetRuleFault(index, env)

SpecFault == Init /\ [][NextFault]_vars

----------------------------------------------------------------------------
(* The analysis calls as actions *)

HydraulicOps == {"open_h", "init_h", "run_h", "next_h", "close_h", "solve_h"}

InitHydOptions == {"NoSave", "Save", "InitFlow", "SaveAndInit"}

\* The three callers of the analysis calls found in the wrapper's tests:
\* "hyd" makes hydraulic calls in any order,
\* "qual" makes quality calls in any order on hydraulics saved by solve_h,
\* "coupled" runs the progressive loop of test_progressive_step, with or
\* without the repeated open_q/init_q, and may swap the calls of an iteration.
Tests == {"hyd", "qual", "coupled"}

CoupledOffered(op, flag) ==
    CASE op = "open_h" -> last.op = "new"
      [] op = "init_h" -> sim.H = "Opened" /\ flag = "NoSave"
      [] op = "open_q" -> /\ sim.H = "Initialized"
                          /\ obs.hl = "head"
                          /\ \/ sim.Q = "Closed"
                             \/ obs.cl = "0" /\ ~obs.re
      [] op = "init_q" -> sim.Q = "Opened" /\ flag = "NoSave"
      [] op \in {"run_h", "run_q", "next_h", "next_q"} ->
            CoupledNext(obs, op, Ok(0)) # "none"
      [] op = "close_h" -> obs.cl \in {"end", "a4", "b3", "b4"}
      [] op = "close_q" -> sim.H = "Closed" /\ sim.Q # "Closed"
      [] OTHER -> FALSE

Offered(op, flag) ==
    CASE obs.test = "hyd" -> op \in HydraulicOps
      [] obs.test = "qual" -> op \in QualityOps \cup {"solve_h", "save_h"}
      [] obs.test = "coupled" -> CoupledOffered(op, flag)
      [] OTHER -> FALSE

Analyse(op, flag, r) ==
    /\ Offered(op, flag)
    /\ sim' = r.e
    /\ psim' = sim
    /\ obs' = Observe(obs, op, r.ret, sim, r.e)
    /\ last' = Call(op, 0, flag, NoText, NoEnv, r.ret, <<>>)
    /\ UNCHANGED <<ph, pre, held, life>>

OpenH == Analyse("open_h", "", open_h(sim))

InitH(init_flag) == Analyse("init_h", init_flag, init_h(sim, init_flag))

RunH == Analyse("run_h", "", run_h(sim))

\* The clocks are not advanced again once the end of the duration has been signalled.
NextH ==
    /\ sim.Htime <= sim.Dur
    /\ sim.Qtime <= sim.Dur
    /\ Analyse("next_h", "", next_h(sim))

CloseH == Analyse("close_h", "", close_h(sim))

SolveH ==
    /\ sim.Qtime <= sim.Dur
    /\ Analyse("solve_h", "", solve_h(sim))

SaveH == Analyse("save_h", "", save_h(sim))

OpenQ == Analyse("open_q", "", open_q(sim))

InitQ(save_flag) == Analyse("init_q", save_flag, init_q(sim, save_flag))

RunQ == Analyse("run_q", "", run_q(sim))

\* Quality is not routed further once it has been routed over as many periods
\* as the duration can hold.
NextQ ==
    /\ Len(sim.qual) <= sim.Dur
    /\ Analyse("next_q", "", next_q(sim))

\* step_q is called on saved hydraulic results, as its callers do.
StepQ ==
    /\ sim.H = "Closed"
    /\ Len(sim.qual) <= sim.Dur
    /\ Analyse("step_q", "", step_q(sim))

SolveQ == Analyse("solve_q", "", solve_q(sim))

CloseQ == Analyse("close_q", "", close_q(sim))

InitSim ==
    /\ ph = [Node |-> InitNodes, Link |-> CHOOSE links \in InitLinks : TRUE,
             Control |-> <<>>, Rule |-> <<>>, Curve |-> <<>>]
    /\ pre = ph
    /\ last = Call("new", 0, "", NoText, NoEnv, Ok(Unit), <<>>)
    /\ \E dur \in 1..MaxDur, hstep \in 1..MaxHstep : sim = NewAnalysis(dur, hstep)
    /\ psim = sim
    /\ \E test \in Tests : obs = [NoObs EXCEPT !.test = test]
    /\ held = <<>>
    /\ life = <<>>

NextSim ==
    \/ OpenH
    \/ \E init_flag \in InitHydOptions : InitH(init_flag)
    \/ RunH
    \/ NextH
    \/ CloseH
    \/ SolveH
    \/ SaveH
    \/ OpenQ
    \/ \E save_flag \in InitHydOptions : InitQ(save_flag)
    \/ RunQ
    \/ NextQ
    \/ StepQ
    \/ SolveQ
    \/ CloseQ

SpecSim == InitSim /\ [][NextSim]_vars

----------------------------------------------------------------------------
(* Engine instances: creation and teardown *)

MaxProjects == 4

\* Paths given to EPANET::new: an existing input file, a file that does not
\* exist, and a path with an interior NUL byte.
GoodPath == "net1.inp"

MissingPath == "missing.inp"

NulPath == "net1<NUL>.inp"

InputPaths == {GoodPath, MissingPath, NulPath}

\* EN_createproject: allocates a project and writes its handle, or fails with
\* an out-of-memory code and allocates nothing.
EN_createproject(L, code) ==
    IF code # 0
    THEN [code |-> code, L |-> L, out |-> 0]
    ELSE [code |-> 0, out |-> Len(L) + 1,
          L |-> Append(L, [opened |-> FALSE, closed |-> 0, deleted |-> 0,
                           value |-> "none"])]

\* EN_open: reads the input file into the project; 302 when it cannot be opened.
EN_open(L, h, inp) ==
    IF inp = GoodPath
    THEN [code |-> 0, L |-> [L EXCEPT ![h].opened = TRUE]]
    ELSE [code |-> 302, L |-> L]

EN_close(L, h) ==
    [code |-> 0, L |-> [L EXCEPT ![h].opened = FALSE, ![h].closed = @ + 1]]

EN_deleteproject(L, h) ==
    [code |-> 0, L |-> [L EXCEPT ![h].deleted = @ + 1]]

\* CString::new(path).unwrap()
CString_new(path) == IF path = NulPath THEN Panic("NulError") ELSE Ok(path)

\* EPANET::new: the EPANET value is made only when EN_open returned 0.
new(L, inp_path, create_code) ==
    LET c == EN_createproject(L, create_code)
        inp == CString_new(inp_path)
        o == EN_open(c.L, c.out, inp_path)
    IN IF c.code # 0 THEN [L |-> c.L, ret |-> EPANETError_from(c.code)]
       ELSE IF ~IsOkResult(inp) THEN [L |-> c.L, ret |-> inp]
       ELSE IF o.code = 0
       THEN [L |-> [o.L EXCEPT ![c.out].value = "live"], ret |-> Ok(c.out)]
       ELSE [L |-> o.L, ret |-> EPANETError_from(o.code)]

\* Drop for EPANET: EN_close, then EN_deleteproject.
drop(L, h) ==
    LET c == EN_close(L, h)
        d == EN_deleteproject(c.L, h)
    IN [L |-> [d.L EXCEPT ![h].value = "dropped"], ret |-> Ok(Unit)]

Lifecycle(op, index, action, r) ==
    /\ life' = r.L
    /\ last' = Call(op, index, action, NoText, NoEnv, r.ret, <<>>)
    /\ UNCHANGED <<ph, pre, sim, psim, obs, held>>

New(inp_path, create_code) ==
    /\ Len(life) < MaxProjects
    /\ Lifecycle("new", 0, inp_path, new(life, inp_path, create_code))

\* A call on a live EPANET value that returns early with an error: the value
\* stays with the caller.
ErrorReturn(h) ==
    /\ h \in 1..Len(life)
    /\ life[h].value = "live"
    /\ Lifecycle("get_rule", h, "", [L |-> life, ret |-> EPANETError_from(257)])

Drop(h) ==
    /\ h \in 1..Len(life)
    /\ life[h].value = "live"
    /\ Lifecycle("drop", h, "", drop(life, h))

InitLife ==
    /\ ph = [Node |-> InitNodes, Link |-> CHOOSE links \in InitLinks : TRUE,
             Control |-> <<>>, Rule |-> <<>>, Curve |-> <<>>]
    /\ pre = ph
    /\ last = Call("none", 0, "", NoText, NoEnv, Ok(Unit), <<>>)
    /\ sim = NewAnalysis(1, 1)
    /\ psim = sim
    /\ obs = NoObs
    /\ held = <<>>
    /\ life = <<>>

NextLife ==
    \/ \E inp_path \in InputPaths, create_code \in {0, 101} : New(inp_path, create_code)
    \/ \E h \in 1..MaxProjects : ErrorReturn(h)
    \/ \E h \in 1..MaxProjects : Drop(h)

SpecLife == InitLife /\ [][NextLife]_vars

----------------------------------------------------------------------------
(* Simple controls: the engine's control array and impls/control.rs *)

MaxControls == 2

\* The engine's control type codes.
EN_ControlType == [LowLevel |-> 0, HiLevel |-> 1, Timer |-> 2, TimeOfDay |-> 3]

ControlType == EN_ControlType

LevelTypes == {EN_ControlType.LowLevel, EN_ControlType.HiLevel}

TypeName(type) == CHOOSE t \in DOMAIN EN_ControlType : EN_ControlType[t] = type

ValidControl(p, index) == index >= 1 /\ index <= Len(p.Control)

\* The code with which the engine refuses the fields of a control: the link
\* must exist, and a level control's node must exist.
ControlFieldsCode(p, type, linkIndex, nodeIndex) ==
    IF linkIndex < 1 \/ linkIndex > Len(p.Link) THEN 204
    ELSE IF type \notin {EN_ControlType[t] : t \in DOMAIN EN_ControlType} THEN 251
    ELSE IF type \in LevelTypes /\ (nodeIndex < 1 \/ nodeIndex > Len(p.Node)) THEN 203
    ELSE 0

\* EN_addcontrol: appends an enabled control and writes its index.
EN_addcontrol(p, type, linkIndex, setting, nodeIndex, level) ==
    LET code == ControlFieldsCode(p, type, linkIndex, nodeIndex)
    IN IF code # 0 THEN [code |-> code, p |-> p, out |-> 0]
       ELSE [code |-> 0, out |-> Len(p.Control) + 1,
             p |-> [p EXCEPT !.Control =
                      Append(@, SimpleControl(TypeName(type), linkIndex, nodeIndex,
                                              setting, level))]]

ZeroControl == [type |-> 0, linkIndex |-> 0, setting |-> 0, nodeIndex |-> 0, level |-> 0]

EN_getcontrol(p, index) ==
    IF ~ValidControl(p, index) THEN [code |-> 241, out |-> ZeroControl]
    ELSE LET c == p.Control[index]
         IN [code |-> 0,
             out |-> [type |-> EN_ControlType[c.Type], linkIndex |-> c.Link,
                      setting |-> c.Setting, nodeIndex |-> c.Node, level |-> c.Grade]]

\* EN_setcontrol: replaces the core fields; the enabled flag is kept.
EN_setcontrol(p, index, type, linkIndex, setting, nodeIndex, level) ==
    LET code == ControlFieldsCode(p, type, linkIndex, nodeIndex)
    IN IF ~ValidControl(p, index) THEN [code |-> 241, p |-> p]
       ELSE IF code # 0 THEN [code |-> code, p |-> p]
       ELSE [code |-> 0,
             p |-> [p EXCEPT !.Control[index] =
                      [SimpleControl(TypeName(type), linkIndex, nodeIndex, setting, level)
                         EXCEPT !.isEnabled = p.Control[index].isEnabled]]]

EN_deletecontrol(p, index) ==
    IF ~ValidControl(p, index) THEN [code |-> 241, p |-> p]
    ELSE [code |-> 0, p |-> [p EXCEPT !.Control = RemoveAt(@, index)]]

EN_getcontrolenabled(p, index) ==
    IF ~ValidControl(p, index) THEN [code |-> 241, out |-> 0]
    ELSE [code |-> 0, out |-> IF p.Control[index].isEnabled THEN 1 ELSE 0]

EN_setcontrolenabled(p, index, enabled) ==
    IF ~ValidControl(p, index) THEN [code |-> 241, p |-> p]
    ELSE [code |-> 0, p |-> [p EXCEPT !.Control[index].isEnabled = (enabled # 0)]]

check_error(code) == IF code = 0 THEN Ok(Unit) ELSE EPANETError_from(code)

\* enabled as i32
bool_as_i32(b) == IF b THEN 1 ELSE 0

\* The snapshot struct Control (types/control.rs).
Control(index, control_type, link_index, setting, node_index, level, enabled) ==
    [index |-> index, control_type |-> control_type, link_index |-> link_index,
     setting |-> setting, node_index |-> node_index, level |-> level,
     enabled |-> enabled]

get_control_enabled(p, control_index) ==
    LET r == EN_getcontrolenabled(p, control_index)
        checked == check_error(r.code)
    IN IF IsOkResult(checked) THEN Ok(r.out # 0) ELSE checked

\* An engine call that changes the project, made under env: when env names
\* the call, the engine returns env.code and changes nothing.
ffi_p(env, fn, r, p) ==
    IF env.fn = fn THEN [code |-> env.code, p |-> p, out |-> 0] ELSE r

set_control_enabled(p, control_index, enabled, env) ==
    LET r == ffi_p(env, "EN_setcontrolenabled",
                   EN_setcontrolenabled(p, control_index, bool_as_i32(enabled)), p)
    IN [p |-> r.p, ret |-> check_error(r.code), calls |-> <<"EN_setcontrolenabled">>]

\* Mutant: get_control that reports every control as enabled.
get_control_enabled_assumed(p, index) ==
    LET r == EN_getcontrol(p, index)
        checked == check_error(r.code)
        type == from_i32(ControlType, r.out.type)
    IN IF ~IsOkResult(checked) THEN checked
       ELSE IF type = None THEN Panic("called Option::unwrap() on a None value")
       ELSE Ok(Control(index, type, r.out.linkIndex, r.out.setting,
                       r.out.nodeIndex, r.out.level, TRUE))

get_control(p, index) ==
    LET r == EN_getcontrol(p, index)
        checked == check_error(r.code)
        enabled == get_control_enabled(p, index)
        type == from_i32(ControlType, r.out.type)
    IN IF ~IsOkResult(checked) THEN checked
       ELSE IF ~IsOkResult(enabled) THEN enabled
       ELSE IF type = None THEN Panic("called Option::unwrap() on a None value")
       ELSE Ok(Control(index, type, r.out.linkIndex, r.out.setting,
                       r.out.nodeIndex, r.out.level, enabled.val))

\* Mutant: update_control that does not write the enabled flag.
update_control_core_only(p, control, env) ==
    LET r == ffi_p(env, "EN_setcontrol",
                   EN_setcontrol(p, control.index, ControlType[control.control_type],
                                 control.link_index, control.setting,
                                 control.node_index, control.level), p)
    IN [p |-> r.p, ret |-> check_error(r.code), calls |-> <<"EN_setcontrol">>]

\* Mutant: update_control that writes the enabled flag first.
update_control_enabled_first(p, control, env) ==
    LET s == set_control_enabled(p, control.index, control.enabled, env)
        r == ffi_p(env, "EN_setcontrol",
                   EN_setcontrol(s.p, control.index, ControlType[control.control_type],
                                 control.link_index, control.setting,
                                 control.node_index, control.level), s.p)
    IN IF ~IsOkResult(s.ret) THEN s
       ELSE [p |-> r.p, ret |-> check_error(r.code),
             calls |-> s.calls \o <<"EN_setcontrol">>]

\* Mutant: update_control that writes to the index below the snapshot's.
update_control_index_below(p, control, env) ==
    LET r == ffi_p(env, "EN_setcontrol",
                   EN_setcontrol(p, control.index - 1, ControlType[control.control_type],
                                 control.link_index, control.setting,
                                 control.node_index, control.level), p)
        checked == check_error(r.code)
        s == set_control_enabled(r.p, control.index - 1, control.enabled, env)
    IN IF ~IsOkResult(checked)
       THEN [p |-> r.p, ret |-> checked, calls |-> <<"EN_setcontrol">>]
       ELSE [s EXCEPT !.calls = <<"EN_setcontrol">> \o @]

update_control(p, control, env) ==
    LET r == ffi_p(env, "EN_setcontrol",
                   EN_setcontrol(p, control.index, ControlType[control.control_type],
                                 control.link_index, control.setting,
                                 control.node_index, control.level), p)
        checked == check_error(r.code)
        s == set_control_enabled(r.p, control.index, control.enabled, env)
    IN IF ~IsOkResult(checked)
       THEN [p |-> r.p, ret |-> checked, calls |-> <<"EN_setcontrol">>]
       ELSE [s EXCEPT !.calls = <<"EN_setcontrol">> \o @]

\* Mutant: the control below the given one is deleted.
delete_control_by_index_below(p, index) ==
    LET r == EN_deletecontrol(p, index - 1)
    IN [p |-> r.p, ret |-> check_error(r.code), calls |-> <<"EN_deletecontrol">>]

delete_control_by_index(p, index) ==
    LET r == EN_deletecontrol(p, index)
    IN [p |-> r.p, ret |-> check_error(r.code), calls |-> <<"EN_deletecontrol">>]

delete_control(p, control) == delete_control_by_index(p, control.index)

\* Mutant: add_control that leaves the enabled flag as the engine set it.
add_control_enabled_unset(p, control_type, link_index, setting, node_index, level, enabled, env) ==
    LET r == ffi_p(env, "EN_addcontrol",
                   EN_addcontrol(p, ControlType[control_type], link_index, setting,
                                 node_index, level), p)
        checked == check_error(r.code)
    IN IF ~IsOkResult(checked)
       THEN [p |-> r.p, ret |-> checked, calls |-> <<"EN_addcontrol">>]
       ELSE [p |-> r.p, calls |-> <<"EN_addcontrol">>,
             ret |-> Ok(Control(r.out, control_type, link_index, setting,
                                node_index, level, enabled))]

\* Mutant: add_control that deletes the control again when the enabled flag
\* cannot be set.
add_control_rolled_back(p, control_type, link_index, setting, node_index, level, enabled, env) ==
    LET r == ffi_p(env, "EN_addcontrol",
                   EN_addcontrol(p, ControlType[control_type], link_index, setting,
                                 node_index, level), p)
        checked == check_error(r.code)
        s == set_control_enabled(r.p, r.out, enabled, env)
    IN IF ~IsOkResult(checked)
       THEN [p |-> r.p, ret |-> checked, calls |-> <<"EN_addcontrol">>]
       ELSE IF ~IsOkResult(s.ret)
       THEN [p |-> EN_deletecontrol(s.p, r.out).p, ret |-> s.ret,
             calls |-> <<"EN_addcontrol">> \o s.calls \o <<"EN_deletecontrol">>]
       ELSE [p |-> s.p, calls |-> <<"EN_addcontrol">> \o s.calls,
             ret |-> Ok(Control(r.out, control_type, link_index, setting,
                                node_index, level, enabled))]

add_control(p, control_type, link_index, setting, node_index, level, enabled, env) ==
    LET r == ffi_p(env, "EN_addcontrol",
                   EN_addcontrol(p, ControlType[control_type], link_index, setting,
                                 node_index, level), p)
        checked == check_error(r.code)
        s == set_control_enabled(r.p, r.out, enabled, env)
    IN IF ~IsOkResult(checked)
       THEN [p |-> r.p, ret |-> checked, calls |-> <<"EN_addcontrol">>]
       ELSE IF ~IsOkResult(s.ret)
       THEN [p |-> s.p, ret |-> s.ret, calls |-> <<"EN_addcontrol">> \o s.calls]
       ELSE [p |-> s.p, calls |-> <<"EN_addcontrol">> \o s.calls,
             ret |-> Ok(Control(r.out, control_type, link_index, setting,
                                node_index, level, enabled))]

\* Control::update and Control::delete
Control_update(p, control, env) == update_control(p, control, env)

Control_delete(p, control) == delete_control(p, control)

\* The fields callers give a control: the timer control of
\* test_add_update_delete_control before and after its change, controls that
\* differ from it in the other fields, and fields the engine refuses.
ControlArgs ==
    { Control(0, "Timer", 1, 0, 0, 3600, TRUE),
      Control(0, "Timer", 1, 0, 0, 7200, FALSE),
      Control(0, "TimeOfDay", 2, 1, 0, 7200, FALSE),
      Control(0, "LowLevel", 2, 1, 3, 110, FALSE),
      Control(0, "HiLevel", 2, 1, 3, 110, TRUE),
      Control(0, "HiLevel", 2, 1, 2, 110, TRUE),
      Control(0, "Timer", 9, 0, 0, 3600, TRUE),
      Control(0, "LowLevel", 1, 0, 0, 110, FALSE) }

\* The snapshots the caller holds besides the first.
Rest(h) == IF h = <<>> THEN <<>> ELSE Tail(h)

Controls(op, index, text, env, r, snapshot) ==
    /\ ph' = r.p
    /\ pre' = ph
    /\ last' = Call(op, index, "", text, env, r.ret, r.calls)
    /\ held' = snapshot
    /\ UNCHANGED <<sim, psim, obs, life>>

AddControl(a) ==
    /\ Len(ph.Control) < MaxControls
    /\ LET r == add_control(ph, a.control_type, a.link_index, a.setting,
                            a.node_index, a.level, a.enabled, NoEnv)
       IN Controls("add_control", 0, a, NoEnv, r,
                   IF IsOkResult(r.ret) THEN <<r.ret.val>> \o Rest(held) ELSE held)

\* get_control; the caller keeps the snapshot or only looks at it.
GetControl(index, keep) ==
    LET ret == get_control(ph, index)
    IN Controls("get_control", index, NoText, NoEnv,
                [p |-> ph, ret |-> ret,
                 calls |-> <<"EN_getcontrol", "EN_getcontrolenabled">>],
                IF keep /\ IsOkResult(ret) THEN <<ret.val>> \o Rest(held) ELSE held)

\* The caller assigns the public fields of the snapshot it holds and calls
\* update().
Update(a) ==
    /\ held # <<>>
    /\ LET control == [a EXCEPT !.index = held[1].index]
       IN Controls("update", control.index, held[1], NoEnv,
                   Control_update(ph, control, NoEnv),
                   <<control>> \o Tail(held))

\* delete() consumes the snapshot.
Delete ==
    /\ held # <<>>
    /\ Controls("delete", held[1].index, held[1], NoEnv,
                Control_delete(ph, held[1]), Tail(held))

InitControl ==
    /\ ph = [Node |-> InitNodes, Link |-> CHOOSE links \in InitLinks : TRUE,
             Control |-> <<>>, Rule |-> <<>>, Curve |-> <<>>]
    /\ pre = ph
    /\ last = Call("new", 0, "", NoText, NoEnv, Ok(Unit), <<>>)
    /\ sim = NewAnalysis(1, 1)
    /\ psim = sim
    /\ obs = NoObs
    /\ held = <<>>
    /\ life = <<>>

NextControl ==
    \/ \E a \in ControlArgs : AddControl(a)
    \/ \E index \in 0..(Len(ph.Control) + 1), keep \in BOOLEAN : GetControl(index, keep)
    \/ \E a \in ControlArgs : Update(a)
    \/ Delete

SpecControl == InitControl /\ [][NextControl]_vars

\* let other = ph.get_control(index): a second snapshot, held besides the one
\* the caller already has.
TakeControl(index) ==
    /\ Len(held) = 1
    /\ LET ret == get_control(ph, index)
       IN Controls("get_control", index, NoText, NoEnv,
                   [p |-> ph, ret |-> ret,
                    calls |-> <<"EN_getcontrol", "EN_getcontrolenabled">>],
                   IF IsOkResult(ret) THEN <<ret.val>> \o held ELSE held)

\* let other = ph.add_control(..): the caller goes on with the snapshot it
\* already has and keeps the new one besides it.
AddAnother(a) ==
    /\ Len(held) = 1
    /\ Len(ph.Control) < MaxControls
    /\ LET r == add_control(ph, a.control_type, a.link_index, a.setting,
                            a.node_index, a.level, a.enabled, NoEnv)
       IN Controls("add_control", 0, a, NoEnv, r,
                   IF IsOkResult(r.ret) THEN held \o <<r.ret.val>> ELSE held)

\* The fields given to the controls of a caller that holds two snapshots; so
\* that a control can be told from the others, no two controls get the same
\* fields.
StaleArgs ==
    { Control(0, "Timer", 1, 0, 0, 3600, TRUE),
      Control(0, "Timer", 1, 0, 0, 7200, FALSE),
      Control(0, "LowLevel", 2, 1, 3, 110, FALSE),
      Control(0, "HiLevel", 2, 1, 2, 140, TRUE) }

SameFields(c, snapshot) ==
    /\ c.Type = snapshot.control_type
    /\ c.Link = snapshot.link_index
    /\ c.Setting = snapshot.setting
    /\ c.Node = snapshot.node_index
    /\ c.Grade = snapshot.level
    /\ c.isEnabled = snapshot.enabled

Unused(a) == \A i \in 1..Len(ph.Control) : ~SameFields(ph.Control[i], a)

NextStale ==
    \/ \E a \in StaleArgs : Unused(a) /\ AddControl(a)
    \/ \E a \in StaleArgs : Unused(a) /\ AddAnother(a)
    \/ \E index \in 1..Len(ph.Control) : TakeControl(index)
    \/ \E a \in StaleArgs : Unused(a) /\ Update(a)
    \/ Delete

SpecStale == InitControl /\ [][NextStale]_vars

\* The engine refusing one call of a composite wrapper operation.
ControlEnvs ==
    { Fail(fn, 0, 241, FALSE) : fn \in {"EN_addcontrol", "EN_setcontrol",
                                        "EN_setcontrolenabled"} }

AddControlFault(a, env) ==
    /\ Len(ph.Control) < MaxControls
    /\ LET r == add_control(ph, a.control_type, a.link_index, a.setting,
                            a.node_index, a.level, a.enabled, env)
       IN Controls("add_control", 0, a, env, r,
                   IF IsOkResult(r.ret) THEN <<r.ret.val>> \o Rest(held) ELSE held)

UpdateFault(a, env) ==
    /\ held # <<>>
    /\ LET control == [a EXCEPT !.index = held[1].index]
       IN Controls("update", control.index, held[1], env,
                   Control_update(ph, control, env),
                   <<control>> \o Tail(held))

\* The fields given to the calls of the program run on an engine that may
\* refuse one call.
FaultArgs ==
    { Control(0, "Timer", 1, 0, 0, 3600, TRUE),
      Control(0, "Timer", 1, 0, 0, 7200, FALSE),
      Control(0, "LowLevel", 2, 1, 3, 110, FALSE),
      Control(0, "Timer", 9, 0, 0, 3600, TRUE) }

NextControlFault ==
    \/ \E a \in FaultArgs : AddControl(a)
    \/ \E index \in 0..(Len(ph.Control) + 1), keep \in BOOLEAN : GetControl(index, keep)
    \/ \E a \in FaultArgs : Update(a)
    \/ Delete
    \/ \E a \in FaultArgs, env \in ControlEnvs : AddControlFault(a, env)
    \/ \E a \in FaultArgs, env \in ControlEnvs : UpdateFault(a, env)

SpecControlFault == InitControl /\ [][NextControlFault]_vars




----------------------------------------------------------------------------
(* Observations used by the properties *)

NodeIDs == {InitNodes[i].ID : i \in 1..Len(InitNodes)}

LinkIDs == UNION {{links[i].ID : i \in 1..Len(links)} : links \in InitLinks}

IsOk(ret) == ret.kind = "Ok"

IsErr(ret, code) == ret.kind = "Err" /\ ret.code = code

RuleCountOf(p) == get_count(p, "RuleCount").val

\* The element a rule clause refers to, by ID, so that rules can be compared
\* across a deletion that renumbers nodes and links.
ObjectIdOf(p, object, index) ==
    IF object = EN_RuleObject.Node
    THEN IF index \in 1..Len(p.Node) THEN p.Node[index].ID ELSE "<no node>"
    ELSE IF object = EN_RuleObject.Link
    THEN IF index \in 1..Len(p.Link) THEN p.Link[index].ID ELSE "<no link>"
    ELSE ""

ActionsById(p, actions) ==
    [i \in 1..Len(actions) |->
        [id |-> ObjectIdOf(p, EN_RuleObject.Link, actions[i].link),
         status |-> actions[i].status, setting |-> actions[i].setting]]

RuleById(p, rule) ==
    [label |-> rule.label, priority |-> rule.priority, isEnabled |-> rule.isEnabled,
     premises |-> [i \in 1..Len(rule.Premises) |->
                     [logop |-> rule.Premises[i].logop,
                      object |-> rule.Premises[i].object,
                      id |-> ObjectIdOf(p, rule.Premises[i].object, rule.Premises[i].index),
                      variable |-> rule.Premises[i].variable,
                      relop |-> rule.Premises[i].relop,
                      status |-> rule.Premises[i].status,
                      value |-> rule.Premises[i].value]],
     then |-> ActionsById(p, rule.ThenActions),
     else |-> ActionsById(p, rule.ElseActions)]

\* Is link i of p referenced by a simple control or by a rule?
LinkReferenced(p, i) ==
    \/ \E c \in 1..Len(p.Control) : p.Control[c].Link = i
    \/ \E r \in 1..Len(p.Rule) :
          \/ \E k \in 1..Len(p.Rule[r].Premises) :
                /\ p.Rule[r].Premises[k].object = EN_RuleObject.Link
                /\ p.Rule[r].Premises[k].index = i
          \/ \E k \in 1..Len(p.Rule[r].ThenActions) : p.Rule[r].ThenActions[k].link = i
          \/ \E k \in 1..Len(p.Rule[r].ElseActions) : p.Rule[r].ElseActions[k].link = i

NodeReferenced(p, n) ==
    \/ \E c \in 1..Len(p.Control) : p.Control[c].Node = n
    \/ \E r \in 1..Len(p.Rule) : \E k \in 1..Len(p.Rule[r].Premises) :
          /\ p.Rule[r].Premises[k].object = EN_RuleObject.Node
          /\ p.Rule[r].Premises[k].index = n

\* Every observation the wrapper offers on counts and ID resolution agrees.
SameModel(p, q) ==
    /\ \A ct \in {"NodeCount", "LinkCount", "ControlCount", "RuleCount"} :
          get_count(p, ct) = get_count(q, ct)
    /\ \A id \in LinkIDs : get_link_index(p, id) = get_link_index(q, id)
    /\ \A id \in NodeIDs : get_node_index(p, id) = get_node_index(q, id)

\* The last call was a Conditional delete of a live element that a rule or
\* a simple control refers to.
ConditionalDeleteOfReferenced ==
    /\ last.action = "Conditional"
    /\ \/ /\ last.op = "delete_link"
          /\ last.index \in 1..Len(pre.Link)
          /\ LinkReferenced(pre, last.index)
       \/ /\ last.op = "delete_node"
          /\ last.index \in 1..Len(pre.Node)
          /\ NodeReferenced(pre, last.index)

----------------------------------------------------------------------------
\* C1: delete_link / delete_node with Conditional on an element referenced
\* by a rule or a simple control fails with code 261 and leaves the model
\* unchanged: the counts and the index of every ID are as before the call.
C1_ConditionalDeleteBlocked ==
    ConditionalDeleteOfReferenced
        => /\ IsErr(last.ret, 261)
           /\ SameModel(ph, pre)
           /\ ph = pre

\* Reached: Conditional delete_link of a link named in a rule's action,
\* refused with 261 while no simple control exists.
C1_Witness ==
    /\ ConditionalDeleteOfReferenced
    /\ last.op = "delete_link"
    /\ Len(pre.Control) = 0
    /\ Len(pre.Rule) > 0
    /\ IsErr(last.ret, 261)

\* Reached: Conditional delete_node of a node named in a rule premise.
C1_WitnessNode ==
    /\ ConditionalDeleteOfReferenced
    /\ last.op = "delete_node"
    /\ IsErr(last.ret, 261)

----------------------------------------------------------------------------
(* Unconditional deletion of a node *)

UnconditionalDeleteNode ==
    /\ last.op = "delete_node"
    /\ last.action = "Unconditional"
    /\ last.index \in 1..Len(pre.Node)

\* Links of the pre-state that are connected to the deleted node.
LinkGoes(i) == pre.Link[i].N1 = last.index \/ pre.Link[i].N2 = last.index

LinkGoesFlags == [i \in 1..Len(pre.Link) |-> LinkGoes(i)]

\* Rules of the pre-state that refer to the deleted node or to a link
\* deleted together with it.
RuleGoes(r) ==
    \/ \E k \in 1..Len(pre.Rule[r].Premises) :
          LET pr == pre.Rule[r].Premises[k]
          IN \/ pr.object = EN_RuleObject.Node /\ pr.index = last.index
             \/ pr.object = EN_RuleObject.Link /\ pr.index \in 1..Len(pre.Link)
                   /\ LinkGoes(pr.index)
    \/ \E k \in 1..Len(pre.Rule[r].ThenActions) : LinkGoes(pre.Rule[r].ThenActions[k].link)
    \/ \E k \in 1..Len(pre.Rule[r].ElseActions) : LinkGoes(pre.Rule[r].ElseActions[k].link)

RuleGoesFlags == [r \in 1..Len(pre.Rule) |-> RuleGoes(r)]

ControlGoes(c) ==
    \/ pre.Control[c].Node = last.index
    \/ LinkGoes(pre.Control[c].Link)

ControlGoesFlags == [c \in 1..Len(pre.Control) |-> ControlGoes(c)]

RemovedCount(flags) == Cardinality({i \in 1..Len(flags) : flags[i]})

\* A control, with the elements it refers to named by ID.
ControlById(p, c) ==
    [Type |-> c.Type, Setting |-> c.Setting, Grade |-> c.Grade, isEnabled |-> c.isEnabled,
     link |-> ObjectIdOf(p, EN_RuleObject.Link, c.Link),
     node |-> IF c.Node = 0 THEN "" ELSE ObjectIdOf(p, EN_RuleObject.Node, c.Node)]

\* The IDs a rule's clauses resolve to in p.
RuleIds(p, rule) ==
    LET v == RuleById(p, rule)
    IN ({v.premises[k].id : k \in 1..Len(v.premises)} \ {""})
       \cup {v.then[k].id : k \in 1..Len(v.then)}
       \cup {v.else[k].id : k \in 1..Len(v.else)}

\* IDs that no longer name an element after the node deletion, and the
\* markers of an index that resolves to nothing.
GoneIds ==
    {pre.Node[last.index].ID} \cup {pre.Link[i].ID : i \in {j \in 1..Len(pre.Link) : LinkGoes(j)}}
    \cup {"<no node>", "<no link>"}

\* C2: delete_node(n, Unconditional) removes every rule and simple control
\* that refers to n or to a link deleted with n; the rule count drops by
\* the number of rules removed; no survivor refers to a deleted element;
\* each surviving rule keeps its content (its clauses name the same
\* elements) at its old index minus the number of removed rules before it.
C2_UnconditionalNodeCascade ==
    UnconditionalDeleteNode
        => /\ IsOk(last.ret)
           /\ RuleCountOf(ph) = RuleCountOf(pre) - RemovedCount(RuleGoesFlags)
           /\ \A r \in 1..Len(pre.Rule) :
                 ~RuleGoes(r) =>
                    LET r2 == r - CountBelow(RuleGoesFlags, r)
                    IN /\ r2 \in 1..Len(ph.Rule)
                       /\ RuleById(ph, ph.Rule[r2]) = RuleById(pre, pre.Rule[r])
           /\ get_count(ph, "ControlCount").val
                 = Len(pre.Control) - RemovedCount(ControlGoesFlags)
           /\ \A c \in 1..Len(pre.Control) :
                 ~ControlGoes(c) =>
                    LET c2 == c - CountBelow(ControlGoesFlags, c)
                    IN /\ c2 \in 1..Len(ph.Control)
                       /\ ControlById(ph, ph.Control[c2]) = ControlById(pre, pre.Control[c])
           /\ \A r \in 1..Len(ph.Rule) : RuleIds(ph, ph.Rule[r]) \cap GoneIds = {}
           /\ \A c \in 1..Len(ph.Control) :
                 {ControlById(ph, ph.Control[c]).link,
                  ControlById(ph, ph.Control[c]).node} \cap GoneIds = {}

\* Reached: a rule was removed by the node deletion while a rule that had a
\* higher index survives, one place lower, with a renumbered node index.
C2_Witness ==
    /\ UnconditionalDeleteNode
    /\ IsOk(last.ret)
    /\ \E r \in 1..Len(pre.Rule) :
          /\ ~RuleGoes(r)
          /\ CountBelow(RuleGoesFlags, r) >= 1
          /\ ph.Rule[r - CountBelow(RuleGoesFlags, r)] # pre.Rule[r]
    /\ RemovedCount(ControlGoesFlags) >= 1

----------------------------------------------------------------------------
\* C3: delete_node(n, Unconditional) also deletes every link connected to
\* n: get_link_index of a deleted link's ID fails with 204, and every
\* surviving link is found at its old index minus the number of deleted
\* links that had a lower index.
C3_NodeDeleteShiftsLinks ==
    UnconditionalDeleteNode
        => /\ IsOk(last.ret)
           /\ get_count(ph, "LinkCount").val = Len(pre.Link) - RemovedCount(LinkGoesFlags)
           /\ \A i \in 1..Len(pre.Link) :
                 IF LinkGoes(i)
                 THEN IsErr(get_link_index(ph, pre.Link[i].ID), 204)
                 ELSE get_link_index(ph, pre.Link[i].ID)
                         = Ok(i - CountBelow(LinkGoesFlags, i))

\* Reached: two links went with the node and a link above both of them is
\* now found exactly two places lower.
C3_Witness ==
    /\ UnconditionalDeleteNode
    /\ IsOk(last.ret)
    /\ \E i \in 1..Len(pre.Link) :
          /\ ~LinkGoes(i)
          /\ CountBelow(LinkGoesFlags, i) = 2
          /\ get_link_index(pre, pre.Link[i].ID).val
                - get_link_index(ph, pre.Link[i].ID).val = 2
    /\ \E i \in 1..Len(pre.Link) :
          LinkGoes(i) /\ IsErr(get_link_index(ph, pre.Link[i].ID), 204)

----------------------------------------------------------------------------
\* C4: delete_rule(k) with 1 <= k <= rule count removes exactly rule k: the
\* count drops by one, rules below k stay, the rule at j > k is afterwards
\* at j - 1 unchanged; with k outside the range it returns Err and changes
\* nothing.
C4_DeleteRuleShift ==
    last.op = "delete_rule"
        => IF last.index \in 1..RuleCountOf(pre)
           THEN /\ IsOk(last.ret)
                /\ RuleCountOf(ph) = RuleCountOf(pre) - 1
                /\ \A j \in 1..Len(pre.Rule) :
                      /\ j < last.index => ph.Rule[j] = pre.Rule[j]
                      /\ j > last.index => ph.Rule[j - 1] = pre.Rule[j]
                /\ [ph EXCEPT !.Rule = <<>>] = [pre EXCEPT !.Rule = <<>>]
           ELSE /\ last.ret.kind = "Err"
                /\ ph = pre

\* Reached: a rule with rules on both sides of it was deleted.
C4_Witness ==
    /\ last.op = "delete_rule"
    /\ IsOk(last.ret)
    /\ last.index > 1
    /\ last.index < Len(pre.Rule)
    /\ ph.Rule[last.index] = pre.Rule[last.index + 1]
    /\ ph.Rule[last.index] # pre.Rule[last.index]

\* Reached: delete_rule with an index that is no rule.
C4_WitnessOutOfRange ==
    /\ last.op = "delete_rule"
    /\ last.index = Len(pre.Rule) + 1
    /\ Len(pre.Rule) > 0
    /\ last.ret.kind = "Err"

----------------------------------------------------------------------------
\* C5: a successful add_rule raises the rule count by exactly one, puts the
\* new rule at index = new rule count, and leaves the index and content of
\* every earlier rule unchanged.
C5_AddRuleAppends ==
    (last.op = "add_rule" /\ IsOk(last.ret))
        => /\ RuleCountOf(ph) = RuleCountOf(pre) + 1
           /\ ph.Rule[RuleCountOf(ph)].label = last.text.id
           /\ Len(ph.Rule[RuleCountOf(ph)].Premises) = Len(last.text.premises)
           /\ Len(ph.Rule[RuleCountOf(ph)].ThenActions) = Len(last.text.then)
           /\ Len(ph.Rule[RuleCountOf(ph)].ElseActions) = Len(last.text.else)
           /\ \A j \in 1..Len(pre.Rule) : ph.Rule[j] = pre.Rule[j]
           /\ [ph EXCEPT !.Rule = <<>>] = [pre EXCEPT !.Rule = <<>>]

\* Reached: three adds on the empty rule set of the full network, the
\* third rule sitting at index 3.
C5_Witness ==
    /\ last.op = "add_rule"
    /\ IsOk(last.ret)
    /\ RuleCountOf(ph) = 3
    /\ last.text = R3
    /\ ph.Rule[3].label = "3"
    /\ ph.Rule[1].label = "1"
    /\ ph.Rule[2].label = "2"

----------------------------------------------------------------------------
(* What a rule text encodes, in the wrapper's vocabulary *)

TextObject ==
    [NODE |-> "Node", JUNCTION |-> "Node", TANK |-> "Node", RESERVOIR |-> "Node",
     LINK |-> "Link", PIPE |-> "Link", PUMP |-> "Link", VALVE |-> "Link",
     SYSTEM |-> "System"]

TextVariable ==
    [DEMAND |-> "Demand", HEAD |-> "Head", GRADE |-> "Grade", LEVEL |-> "Level",
     PRESSURE |-> "Pressure", FLOW |-> "Flow", STATUS |-> "Status",
     SETTING |-> "Setting", POWER |-> "Power", TIME |-> "Time",
     CLOCKTIME |-> "ClockTime", FILLTIME |-> "FillTime", DRAINTIME |-> "DrainTime"]

TextOperator ==
    ("=" :> "Eq") @@ ("<>" :> "Ne") @@ ("<=" :> "Le") @@ (">=" :> "Ge") @@
    ("<" :> "Lt") @@ (">" :> "Gt") @@ ("IS" :> "Is") @@ ("NOT" :> "Not") @@
    ("BELOW" :> "Below") @@ ("ABOVE" :> "Above")

TextStatus == [OPEN |-> "IsOpen", CLOSED |-> "IsClosed", ACTIVE |-> "IsActive"]

\* A time written in hours is the same quantity in the engine's seconds.
TextValue(t) ==
    IF t.variable \in {"TIME", "CLOCKTIME", "FILLTIME", "DRAINTIME"}
    THEN t.number * 3600 ELSE t.number

TextObjectIndex(p, t) ==
    IF TextObject[t.object] = "System" THEN 0
    ELSE IF TextObject[t.object] = "Node" THEN get_node_index(p, t.id).val
    ELSE get_link_index(p, t.id).val

PremiseMatches(p, prem, t) ==
    /\ prem.logical_operator = t.logop
    /\ prem.rule_object = TextObject[t.object]
    /\ prem.object_index = TextObjectIndex(p, t)
    /\ prem.variable = TextVariable[t.variable]
    /\ prem.rule_operator = TextOperator[t.relop]
    /\ IF t.word # "" THEN prem.status = TextStatus[t.word]
       ELSE prem.status = None /\ prem.value = TextValue(t)

ActionMatches(p, act, t) ==
    /\ act.link_index = get_link_index(p, t.id).val
    /\ IF t.word # "" THEN act.status = TextStatus[t.word]
       ELSE act.setting = t.number

\* get_rule's result reproduces the text.
RuleMatches(p, g, text) ==
    /\ IsOk(g)
    /\ g.val.rule_id = text.id
    /\ Len(g.val.premises) = Len(text.premises)
    /\ Len(g.val.then_actions) = Len(text.then)
    /\ Len(g.val.else_actions.val) = Len(text.else)
    /\ \A i \in 1..Len(text.premises) : PremiseMatches(p, g.val.premises[i], text.premises[i])
    /\ \A i \in 1..Len(text.then) : ActionMatches(p, g.val.then_actions[i], text.then[i])
    /\ \A i \in 1..Len(text.else) : ActionMatches(p, g.val.else_actions.val[i], text.else[i])

SetsASetting(text) ==
    \/ \E i \in 1..Len(text.then) : text.then[i].word = ""
    \/ \E i \in 1..Len(text.else) : text.else[i].word = ""

----------------------------------------------------------------------------
\* C6: for every rule text accepted by add_rule, get_rule at the new rule's
\* index returns Ok with the premise, then-action and else-action counts of
\* the text and the field values the text encodes, also when an action sets
\* a SETTING rather than a STATUS.
C6_AddGetRoundTrip ==
    (last.op = "add_rule" /\ IsOk(last.ret))
        => RuleMatches(ph, get_rule(ph, RuleCountOf(ph), NoEnv).ret, last.text)

\* The round trip of C6 for the accepted texts whose actions all set a STATUS.
C6_RoundTripStatusActions ==
    (last.op = "add_rule" /\ IsOk(last.ret) /\ ~SetsASetting(last.text))
        => RuleMatches(ph, get_rule(ph, RuleCountOf(ph), NoEnv).ret, last.text)

----------------------------------------------------------------------------
(* get_rule on the engine as it is *)

GetRuleOfLiveRule ==
    /\ last.op = "get_rule"
    /\ last.env = NoEnv
    /\ last.index \in 1..Len(pre.Rule)

\* C7: get_rule fetches the rule as the engine stores it: id, premises,
\* then-actions, else-actions, enabled flag and numeric priority; the
\* priority of the returned Rule is the priority the engine reports.
C7_GetRuleFullStructure ==
    (GetRuleOfLiveRule /\ IsOk(last.ret))
        => LET rule == pre.Rule[last.index]
               got == last.ret.val
           IN /\ got.rule_id = rule.label
              /\ Len(got.premises) = Len(rule.Premises)
              /\ Len(got.then_actions) = Len(rule.ThenActions)
              /\ Len(got.else_actions.val) = Len(rule.ElseActions)
              /\ got.enabled = rule.isEnabled
              /\ got.priority = Some(EN_getrule(pre, last.index).out.priority)

\* Everything of C7 except the priority.
C7_AllButPriority ==
    (GetRuleOfLiveRule /\ IsOk(last.ret))
        => LET rule == pre.Rule[last.index]
               got == last.ret.val
           IN /\ got.rule_id = rule.label
              /\ Len(got.premises) = Len(rule.Premises)
              /\ Len(got.then_actions) = Len(rule.ThenActions)
              /\ Len(got.else_actions.val) = Len(rule.ElseActions)
              /\ got.enabled = rule.isEnabled

----------------------------------------------------------------------------
(* The FFI calls of a get_rule run *)

ClauseFns == {"EN_getpremise", "EN_getthenaction", "EN_getelseaction"}

ClauseRank(fn) ==
    CASE fn = "EN_getpremise" -> 1
      [] fn = "EN_getthenaction" -> 2
      [] fn = "EN_getelseaction" -> 3
      [] OTHER -> 0

CallsTo(fn) == {k \in 1..Len(last.calls) : last.calls[k].fn = fn}

\* The counts the engine holds for the rule that was read.
QueriedCount(fn) ==
    LET out == EN_getrule(pre, last.index).out
    IN CASE fn = "EN_getpremise" -> out.nPremises
         [] fn = "EN_getthenaction" -> out.nThenActions
         [] fn = "EN_getelseaction" -> out.nElseActions

\* C8: get_rule queries the counts exactly once and before any clause, then
\* fetches clauses 1..=count of each kind in the order premises, then-
\* actions, else-actions; on success the vectors have the queried lengths
\* in engine order, and else_actions is None exactly when the else count is 0.
C8_CountsBeforeClauses ==
    last.op = "get_rule"
        => /\ Cardinality(CallsTo("EN_getrule")) <= 1
           /\ \A k \in 1..Len(last.calls) :
                 last.calls[k].fn \in ClauseFns
                    => /\ \E j \in 1..(k - 1) : last.calls[j].fn = "EN_getrule"
                       /\ last.calls[k].i <= QueriedCount(last.calls[k].fn)
                       /\ IF last.calls[k - 1].fn = last.calls[k].fn
                          THEN last.calls[k].i = last.calls[k - 1].i + 1
                          ELSE /\ last.calls[k].i = 1
                               /\ ClauseRank(last.calls[k - 1].fn) < ClauseRank(last.calls[k].fn)
           /\ IsOk(last.ret)
                 => /\ Cardinality(CallsTo("EN_getrule")) = 1
                    /\ \A fn \in ClauseFns : Cardinality(CallsTo(fn)) = QueriedCount(fn)
                    /\ Len(last.ret.val.premises) = QueriedCount("EN_getpremise")
                    /\ Len(last.ret.val.then_actions) = QueriedCount("EN_getthenaction")
                    /\ Len(last.ret.val.else_actions.val) = QueriedCount("EN_getelseaction")
                    /\ last.ret.val.else_actions.some = (QueriedCount("EN_getelseaction") # 0)
                    /\ \A i \in 1..Len(last.ret.val.premises) :
                          /\ last.ret.val.premises[i].object_index
                                = pre.Rule[last.index].Premises[i].index
                          /\ last.ret.val.premises[i].value
                                = pre.Rule[last.index].Premises[i].value
                    /\ \A i \in 1..Len(last.ret.val.then_actions) :
                          last.ret.val.then_actions[i].link_index
                             = pre.Rule[last.index].ThenActions[i].link
                    /\ \A i \in 1..Len(last.ret.val.else_actions.val) :
                          last.ret.val.else_actions.val[i].link_index
                             = pre.Rule[last.index].ElseActions[i].link

\* Reached: a successful get_rule of a rule with two premises, a then-action
\* and an else-action: six clause-level calls after the count query.
C8_Witness ==
    /\ last.op = "get_rule"
    /\ IsOk(last.ret)
    /\ Len(last.ret.val.premises) = 2
    /\ last.ret.val.else_actions.some
    /\ last.calls[2].fn = "EN_getrule"
    /\ last.calls[3].fn = "EN_getpremise"
    /\ last.calls[5].fn = "EN_getthenaction"
    /\ last.calls[6].fn = "EN_getelseaction"

\* Reached: a successful get_rule of a rule without else-actions.
C8_WitnessNoElse ==
    /\ last.op = "get_rule"
    /\ IsOk(last.ret)
    /\ ~last.ret.val.else_actions.some
    /\ Len(last.ret.val.then_actions) = 2

----------------------------------------------------------------------------
\* C9: whenever the engine returns a non-zero code from a call made during
\* get_rule, get_rule returns Err with exactly that code, whatever the
\* engine left in the output slots; an out-of-range rule index yields Err.
C9_EngineErrorPropagates ==
    (last.op = "get_rule" /\ \E k \in 1..Len(last.calls) : last.calls[k].code # 0)
        => \E k \in 1..Len(last.calls) :
              /\ last.calls[k].code # 0
              /\ last.ret = EPANETError_from(last.calls[k].code)

\* C9 for the runs in which no premise query fails with unwritten slots.
C9_ExceptUnwrittenPremise ==
    (/\ last.op = "get_rule"
     /\ \E k \in 1..Len(last.calls) : last.calls[k].code # 0
     /\ ~(last.env.fn = "EN_getpremise" /\ last.env.code # 0 /\ ~last.env.written))
        => \E k \in 1..Len(last.calls) :
              /\ last.calls[k].code # 0
              /\ last.ret = EPANETError_from(last.calls[k].code)

----------------------------------------------------------------------------
\* The engine put an unknown discriminant into an enum-typed output of a
\* call that get_rule made.
UnknownDiscriminantRead ==
    /\ last.op = "get_rule"
    /\ last.env.field # ""
    /\ \E k \in 1..Len(last.calls) :
          last.calls[k].fn = last.env.fn /\ last.calls[k].i = last.env.i

\* C10: when the engine emits a discriminant outside the known variants for
\* an enum-typed field read by get_rule, get_rule fails loudly and never
\* substitutes another value for it.
C10_UnknownDiscriminantFailsLoudly ==
    UnknownDiscriminantRead => last.ret.kind = "Panic"

\* C10 for every enum-typed field except a premise's status.
C10_ExceptPremiseStatus ==
    (UnknownDiscriminantRead
     /\ ~(last.env.fn = "EN_getpremise" /\ last.env.field = "status"))
        => last.ret.kind = "Panic"

----------------------------------------------------------------------------
(* Claims about the stepping state machine *)

HydStepping ==
    [open_h |-> "open", init_h |-> "init", run_h |-> "run", next_h |-> "next",
     close_h |-> "close"]

QualStepping ==
    [open_q |-> "open", init_q |-> "init", run_q |-> "run", next_q |-> "next",
     close_q |-> "close"]

IsFailure(ret) == ret.kind = "Err" /\ ret.code # 0

\* The edges of Closed -open-> Opened -init-> Initialized -run-> Stepping
\* -(next|run)-> Stepping ... -close-> Closed that change the state.
ChainEdge(step, from, to) ==
    \/ step = "open" /\ from = "Closed" /\ to = "Opened"
    \/ step = "init" /\ from = "Opened" /\ to = "Initialized"
    \/ step = "run" /\ from = "Initialized" /\ to = "Stepping"
    \/ step = "close" /\ to = "Closed"

\* A run or next before init is refused and changes nothing.
RefusedBeforeInit(step, from) ==
    (step \in {"run", "next"} /\ from \in {"Closed", "Opened"})
        => IsFailure(last.ret) /\ sim = psim

\* A stepping call was made on the hydraulic (quality) solver.
HydSteppingCall == last.op \in DOMAIN HydStepping

QualSteppingCall == last.op \in DOMAIN QualStepping

C11_WitnessHyd ==
    /\ last.op = "next_h"
    /\ psim.H = "Closed"
    /\ IsFailure(last.ret)

\* A solver that was Initialized has been opened again.
C11_WitnessReopen ==
    /\ last.op = "open_q"
    /\ psim.Q = "Initialized"
    /\ sim.Q = "Opened"

\* The caller is inside the loop of test_hyd_step (or has just left it).
InHydLoop == obs.hl \in {"head", "body", "done"}

\* C12: for a duration D > 0, after open_h and init_h the loop { run_h; next_h;
\* stop when next_h <= 0 } ends after finitely many iterations: every call
\* returns Ok, each run_h returns the sum of the next_h values before it, that
\* sum never exceeds D and equals D when next_h returns 0 (every earlier next_h
\* returned more than 0, so at most D + 1 iterations are made), and close_h
\* then returns Ok.
C12_HydLoopTerminates ==
    sim.Dur > 0 =>
       /\ "h" \notin obs.fail
       /\ InHydLoop =>
             /\ obs.hsum <= sim.Dur
             /\ obs.hiter <= sim.Dur + 1
       /\ (last.op = "run_h" /\ obs.hl = "body") => last.ret = Ok(obs.hsum)
       /\ (last.op = "next_h" /\ obs.hl = "head") =>
             IsOk(last.ret) /\ last.ret.val > 0
       /\ (last.op = "next_h" /\ obs.hl = "done") =>
             /\ last.ret = Ok(0)
             /\ obs.hsum = sim.Dur
       /\ (last.op = "close_h" /\ psim.H = "Stepping" /\ psim.Htime > psim.Dur) =>
             IsOk(last.ret)

\* The loop has ended after more than one iteration.
C12_Witness ==
    /\ last.op = "next_h"
    /\ obs.hl = "done"
    /\ obs.hiter > 1
    /\ obs.hsum = sim.Dur

\* close_h has been called after the loop ended.
C12_WitnessClose ==
    /\ last.op = "close_h"
    /\ psim.H = "Stepping"
    /\ psim.Htime > psim.Dur
    /\ IsOk(last.ret)

\* The caller of the coupled loop has made every call so far in the order
\* run_h, run_q, next_h, next_q.
ProperOrder == obs.cl \in {"0", "1", "2", "3", "end", "endh"}

\* C13: in the coupled loop run_h -> run_q -> next_h -> next_q (after open_h,
\* init_h, open_q, init_q) every call returns Ok, the loop ends in the iteration
\* in which next_h returned 0 (which is the one that completes the duration),
\* whatever next_q returned, the quality clock is never ahead of the hydraulic
\* clock, and close_h followed by close_q return Ok.
C13_CoupledLoop ==
    /\ "c" \notin obs.fail
    /\ ProperOrder => sim.Qtime <= sim.Htime
    /\ obs.cl = "end" =>
          /\ obs.dt = 0
          /\ obs.hsum = sim.Dur
          /\ sim.Htime > sim.Dur
    /\ (last.op = "next_q" /\ obs.cl = "0") =>
          /\ IsOk(last.ret)
          /\ obs.dt > 0
          /\ sim.Htime <= sim.Dur
    /\ (last.op = "close_h" /\ obs.cl = "endh") => IsOk(last.ret)
    /\ (last.op = "close_q" /\ obs.test = "coupled" /\ psim.Htime > psim.Dur) =>
          IsOk(last.ret)

\* The coupled loop has ended after more than one iteration.
C13_Witness ==
    /\ obs.cl = "end"
    /\ obs.hiter > 1
    /\ last.op = "next_q"
    /\ IsOk(last.ret)

\* close_q has been called after the coupled loop and close_h.
C13_WitnessClose ==
    /\ last.op = "close_q"
    /\ obs.test = "coupled"
    /\ psim.Htime > psim.Dur
    /\ psim.H = "Closed"
    /\ IsOk(last.ret)

\* The quality state the coupled order reaches at quality time upto: each
\* hydraulic period [t, t + step) routed over the flow field run_h computed for t.
RECURSIVE Periods(_, _, _, _)
Periods(t, dur, hstep, upto) ==
    IF t >= upto \/ t >= dur THEN <<>>
    ELSE <<<<t, Min(hstep, dur - t)>>>> \o Periods(t + Min(hstep, dur - t), dur, hstep, upto)

ProperQual(e) == Periods(0, e.Dur, e.Hstep, e.Qtime)

\* The caller has just finished a quality step (one that covers some time) in
\* an iteration in which it called run_q before run_h, or next_q before run_q.
DeviatedStep == obs.cl \in {"a4", "b3"} /\ last.op = "next_q" /\ obs.dt > 0

C14_WitnessNextFirst ==
    /\ obs.cl = "b3"
    /\ DeviatedStep
    /\ IsOk(last.ret)

\* open_q has just been called on a quality solver that init_q had initialised
\* and that has not run yet.
RepeatedOpenQ ==
    /\ last.op = "open_q"
    /\ psim.Q = "Initialized"
    /\ obs.snap # <<>>

\* init_q has just been called after such a repeated open_q.
RepeatedInitQ == last.op = "init_q" /\ obs.re /\ obs.snap # <<>>

\* C15: open_q followed by init_q may be repeated while the quality solver is
\* Initialized and has not run: both return Ok, the solver is Initialized again
\* and the engine is in the state the first init_q left, so the coupled loop and
\* the closes that follow behave as after a single open_q/init_q.
C15_RepeatedOpenInit ==
    /\ RepeatedOpenQ => IsOk(last.ret) /\ sim.Q = "Opened"
    /\ RepeatedInitQ =>
          /\ IsOk(last.ret)
          /\ sim.Q = "Initialized"
          /\ sim = obs.snap[1]
          /\ obs.cl = "0"
    /\ (obs.re /\ ProperOrder) =>
          /\ "c" \notin obs.fail
          /\ sim.qual = ProperQual(sim)
          /\ obs.cl = "end" => obs.hsum = sim.Dur /\ obs.dt = 0
          /\ (last.op = "close_h" /\ obs.cl = "endh") => IsOk(last.ret)

\* The coupled loop has run to its end after a repeated open_q/init_q.
C15_Witness ==
    /\ obs.re
    /\ obs.cl = "endh"
    /\ IsOk(last.ret)

\* init_q has been repeated.
C15_WitnessInit == RepeatedInitQ /\ IsOk(last.ret)

\* test_hyd_step: the explicit loop open_h; init_h(NoSave);
\* loop { run_h; next_h; if step == 0 break }; close_h, run to its end.
RECURSIVE RunNextLoop(_)
RunNextLoop(e) ==
    LET r == run_h(e)
        n == next_h(r.e)
    IN IF ~IsOkResult(r.ret) THEN r.e
       ELSE IF ~IsOkResult(n.ret) THEN n.e
       ELSE IF ValOf(n.ret) > 0 THEN RunNextLoop(n.e)
       ELSE n.e

ExplicitLoop(e) ==
    close_h(RunNextLoop(init_h(open_h(e).e, "NoSave").e)).e

\* The hydraulic state: the solver's state, its clock and the flow field.
HydState(e) == [H |-> e.H, Htime |-> e.Htime, flow |-> e.flow]

\* The time covered by the hydraulic steps saved from record i on.
RECURSIVE Elapsed(_, _)
Elapsed(file, i) ==
    IF i > Len(file) THEN 0 ELSE file[i].step + Elapsed(file, i + 1)

SolvedFromClosed == last.op = "solve_h" /\ psim.H = "Closed"

C16_WitnessSolve ==
    /\ SolvedFromClosed
    /\ IsOk(last.ret)
    /\ Len(sim.hydfile) > 2

\* step_q has just been called in the loop { run_q; step_q } that follows
\* solve_h, open_q and init_q.
SteppedInLoop == last.op = "step_q" /\ obs.sl \in {"head", "done"}

\* close_q has just been called on the loop abandoned before time-left 0.
ClosedEarly == last.op = "close_q" /\ obs.sl = "early"

ClosedAtEnd == last.op = "close_q" /\ obs.sl = "closed"

\* C17: after solve_h, open_q and init_q every call of the loop
\* { run_q; step_q } returns Ok; step_q returns the time left in the simulation,
\* which is less than the iteration before and is 0 exactly when the loop ends,
\* within as many iterations as the duration has quality steps; close_q
\* returns Ok after the loop ran to 0 and after it was abandoned early.
C17_StepQCountsDown ==
    /\ "t" \notin obs.fail
    /\ SteppedInLoop =>
          /\ last.ret = Ok(sim.Dur - sim.Qtime)
          /\ obs.left = ValOf(last.ret)
          /\ obs.left < obs.pleft
          /\ obs.left >= 0
          /\ (obs.sl = "done") <=> (obs.left = 0)
    /\ (ClosedEarly \/ ClosedAtEnd) => IsOk(last.ret) /\ sim.Q = "Closed"

\* The loop has run to time-left 0 in more than one step and close_q returned Ok.
C17_Witness ==
    /\ ClosedAtEnd
    /\ IsOk(last.ret)
    /\ psim.Qtime = psim.Dur
    /\ psim.Dur > Qstep

\* close_q has returned Ok on a loop abandoned early.
C17_WitnessEarly == ClosedEarly /\ IsOk(last.ret) /\ psim.Qtime < psim.Dur

TornDownOnce(p) == p.closed = 1 /\ p.deleted = 1

\* C18: every engine instance that has been created and is not held by a live
\* EPANET value has been closed and deleted exactly once, and one that is held
\* has not been closed or deleted.
C18_TornDownExactlyOnce ==
    \A h \in 1..Len(life) :
        IF life[h].value = "live"
        THEN life[h].closed = 0 /\ life[h].deleted = 0
        ELSE TornDownOnce(life[h])

\* The part of C18 that holds: an instance for which EPANET::new returned Ok is
\* closed and deleted exactly once, when its value is dropped, also after
\* calls on it that returned errors; no instance is closed or deleted twice.
C18_DroppedValuesTornDownOnce ==
    \A h \in 1..Len(life) :
        /\ life[h].closed <= 1 /\ life[h].deleted <= 1
        /\ life[h].value = "dropped" => TornDownOnce(life[h])
        /\ life[h].value = "live" => life[h].closed = 0 /\ life[h].deleted = 0

\* An instance made by a failed EPANET::new: created, never closed or deleted.
C18_Leaked ==
    \E h \in 1..Len(life) :
        /\ life[h].value = "none"
        /\ life[h].deleted = 0
        /\ last.op = "new" /\ ~IsOk(last.ret)

ControlCountOf(p) == get_count(p, "ControlCount").val

\* The control at index i of p as get_control returns it, without its index.
FieldsOf(c) == [c EXCEPT !.index = 0]

Updated == last.op = "update" /\ IsOk(last.ret) /\ held # <<>>

\* C19: add_control returns a Control with index > 0 and get_control(index)
\* then returns the same type, link_index, setting, node_index, level and
\* enabled flag; after the fields of the snapshot were changed and update()
\* returned Ok, get_control(index) returns the changed value of every field.
C19_AddUpdateRoundTrip ==
    /\ (last.op = "add_control" /\ IsOk(last.ret)) =>
          /\ last.ret.val.index > 0
          /\ get_control(ph, last.ret.val.index) = Ok(last.ret.val)
    /\ Updated => get_control(ph, held[1].index) = Ok(held[1])

\* update() has returned Ok on a snapshot in which every field was changed.
C19_Witness ==
    /\ Updated
    /\ LET was == pre.Control[last.index]
           c == held[1]
       IN /\ was.Type # c.control_type
          /\ was.Link # c.link_index
          /\ was.Setting # c.setting
          /\ was.Node # c.node_index
          /\ was.Grade # c.level
          /\ was.isEnabled # c.enabled

\* add_control has returned a disabled control.
C19_WitnessAdd ==
    /\ last.op = "add_control"
    /\ IsOk(last.ret)
    /\ ~last.ret.val.enabled

Deleted == last.op = "delete" /\ IsOk(last.ret)

\* C20: Control::delete on a held control returns Ok and removes exactly that
\* control: the control count drops by one, the controls below it stay, the
\* controls above it move down by one, and get_control at its index returns
\* Err when it was the highest-indexed control.
C20_DeleteRemovesExactlyOne ==
    /\ (last.op = "delete" /\ ValidControl(pre, last.index)) => IsOk(last.ret)
    /\ Deleted =>
          /\ ControlCountOf(ph) = ControlCountOf(pre) - 1
          /\ \A i \in 1..ControlCountOf(pre) :
                /\ i < last.index => get_control(ph, i) = get_control(pre, i)
                /\ i > last.index =>
                      /\ IsOk(get_control(ph, i - 1))
                      /\ FieldsOf(get_control(ph, i - 1).val)
                            = FieldsOf(get_control(pre, i).val)
          /\ last.index = ControlCountOf(pre) => ~IsOk(get_control(ph, last.index))

\* A control below another, different one has been deleted.
C20_Witness ==
    /\ Deleted
    /\ last.index < ControlCountOf(pre)
    /\ pre.Control[last.index] # pre.Control[last.index + 1]

\* The highest-indexed control has been deleted, with one below it.
C20_WitnessHighest ==
    /\ Deleted
    /\ last.index = ControlCountOf(pre)
    /\ last.index > 1

\* The core-field call of the update() just made, as the engine answered it.
CoreCall ==
    LET c == held[1]
    IN ffi_p(last.env, "EN_setcontrol",
             EN_setcontrol(pre, c.index, ControlType[c.control_type], c.link_index,
                           c.setting, c.node_index, c.level), pre)

EnabledRefused == last.env.fn = "EN_setcontrolenabled" /\ last.env.code # 0

\* C21: update_control issues the core-field call and then the enabled-flag
\* call; when the core-field call fails it returns Err with that code, changes
\* nothing and does not issue the enabled-flag call; when the core-field call
\* succeeds and the enabled-flag call fails it returns Err while the engine
\* keeps the new core fields with the old enabled flag.
C21_UpdateNotTransactional ==
    last.op = "update" =>
        /\ last.calls \in {<<"EN_setcontrol">>, <<"EN_setcontrol", "EN_setcontrolenabled">>}
        /\ CoreCall.code # 0 =>
              /\ last.ret = EPANETError_from(CoreCall.code)
              /\ ph = pre
              /\ last.calls = <<"EN_setcontrol">>
        /\ (CoreCall.code = 0 /\ EnabledRefused) =>
              /\ last.ret = EPANETError_from(last.env.code)
              /\ last.calls = <<"EN_setcontrol", "EN_setcontrolenabled">>
              /\ ph = CoreCall.p
              /\ ph.Control[last.index].isEnabled = pre.Control[last.index].isEnabled
        /\ (CoreCall.code = 0 /\ ~EnabledRefused) => IsOk(last.ret)

\* update() has failed on the enabled flag, leaving new core fields with the
\* old enabled flag, which is not the flag of the snapshot.
C21_Witness ==
    /\ last.op = "update"
    /\ CoreCall.code = 0
    /\ EnabledRefused
    /\ ~IsOk(last.ret)
    /\ ph # pre
    /\ ph.Control[last.index].isEnabled # held[1].enabled

\* update() has failed on the core fields.
C21_WitnessCore ==
    /\ last.op = "update"
    /\ CoreCall.code # 0
    /\ held[1].enabled # pre.Control[last.index].isEnabled

\* The first engine call of the add_control just made, as the engine answered.
AddCall ==
    LET a == last.text
    IN ffi_p(last.env, "EN_addcontrol",
             EN_addcontrol(pre, ControlType[a.control_type], a.link_index, a.setting,
                           a.node_index, a.level), pre)

\* C27: add_control adds the control and then sets its enabled flag; when the
\* engine accepts the control and refuses the enabled flag, add_control returns
\* Err, with no snapshot, and the control stays in the engine, the control
\* count one higher than before; when the first call fails the control count
\* is unchanged and the enabled-flag call is not issued.
C27_AddNotTransactional ==
    last.op = "add_control" =>
        /\ AddCall.code # 0 =>
              /\ last.ret = EPANETError_from(AddCall.code)
              /\ ControlCountOf(ph) = ControlCountOf(pre)
              /\ ph = pre
              /\ last.calls = <<"EN_addcontrol">>
        /\ (AddCall.code = 0 /\ EnabledRefused) =>
              /\ last.ret = EPANETError_from(last.env.code)
              /\ last.calls = <<"EN_addcontrol", "EN_setcontrolenabled">>
              /\ ControlCountOf(ph) = ControlCountOf(pre) + 1
              /\ ph = AddCall.p
        /\ (AddCall.code = 0 /\ ~EnabledRefused) => IsOk(last.ret)

\* add_control has failed on the enabled flag of a control that was to be
\* disabled, and the control is in the engine, enabled.
C27_Witness ==
    /\ last.op = "add_control"
    /\ AddCall.code = 0
    /\ EnabledRefused
    /\ ~IsOk(last.ret)
    /\ ControlCountOf(ph) = ControlCountOf(pre) + 1
    /\ ~last.text.enabled

\* add_control has failed on its first call.
C27_WitnessFirst ==
    /\ last.op = "add_control"
    /\ AddCall.code # 0
    /\ ~IsOk(last.ret)

\* The index in p of the control a snapshot was read from, 0 when there is none.
OriginOf(p, snapshot) ==
    IF \E i \in 1..Len(p.Control) : SameFields(p.Control[i], snapshot)
    THEN CHOOSE i \in 1..Len(p.Control) : SameFields(p.Control[i], snapshot)
    ELSE 0

\* update() or delete() has just been called on a snapshot whose control has
\* moved to a lower index since the snapshot was read.
StaleUse ==
    /\ last.op \in {"update", "delete"}
    /\ OriginOf(pre, last.text) > 0
    /\ OriginOf(pre, last.text) < last.index

C22_WitnessDelete == StaleUse /\ last.op = "delete" /\ IsOk(last.ret)

\* update() on a stale snapshot has failed: no control has the cached index.
C22_WitnessNone == StaleUse /\ ~IsOk(last.ret)


----------------------------------------------------------------------------
(* Nodes and links: the engine's node array and property tables *)

MaxNodes == 4

EN_NodeType == [Junction |-> 0, Reservoir |-> 1, Tank |-> 2]

NodeType == [Junction |-> EN_NodeType.Junction, Reservoir |-> EN_NodeType.Reservoir,
             Tank |-> EN_NodeType.Tank]

NodeTypeName(t) == CHOOSE n \in DOMAIN EN_NodeType : EN_NodeType[n] = t

Reservoir(id) == [ID |-> id, Type |-> "Reservoir"]

\* namevalid: an ID holds no space and no semicolon and does not start with
\* a double quote.  The IDs of the input alphabet that fail the test.
namevalid(name) == name \notin {"N 3", "N;3", "N;2"}

Njuncs(p) == Cardinality({i \in 1..Len(p.Node) : p.Node[i].Type = "Junction"})

InsertAt(s, i, x) == SubSeq(s, 1, i - 1) \o <<x>> \o SubSeq(s, i, Len(s))

\* The premises of a rule that name a tank or reservoir follow its new index.
RaisePremise(prem, index) ==
    IF prem.object = EN_RuleObject.Node /\ prem.index >= index
    THEN [prem EXCEPT !.index = @ + 1] ELSE prem

\* EN_addnode: a junction goes after the last junction and every tank and
\* reservoir moves up by one, with the links, controls and rules that name
\* them; a tank or reservoir goes to the end of the array.
EN_addnode(p, id, nodeType) ==
    IF findnode(p, id) # 0 THEN [code |-> 215, p |-> p, index |-> 0]
    ELSE IF ~namevalid(id) THEN [code |-> 252, p |-> p, index |-> 0]
    ELSE IF nodeType \notin {EN_NodeType[n] : n \in DOMAIN EN_NodeType}
         THEN [code |-> 251, p |-> p, index |-> 0]
    ELSE IF nodeType = EN_NodeType.Junction
    THEN LET nIdx == Njuncs(p) + 1
         IN [code |-> 0, index |-> nIdx,
             p |-> [p EXCEPT
                      !.Node = InsertAt(@, nIdx, Junction(id)),
                      !.Link = [i \in 1..Len(@) |->
                                  [@[i] EXCEPT !.N1 = IF @ >= nIdx THEN @ + 1 ELSE @,
                                               !.N2 = IF @ >= nIdx THEN @ + 1 ELSE @]],
                      !.Control = [i \in 1..Len(@) |->
                                  [@[i] EXCEPT !.Node = IF @ >= nIdx THEN @ + 1 ELSE @]],
                      !.Rule = [k \in 1..Len(@) |->
                                  [@[k] EXCEPT !.Premises =
                                      [i \in 1..Len(@) |-> RaisePremise(@[i], nIdx)]]]]]
    ELSE [code |-> 0, index |-> Len(p.Node) + 1,
          p |-> [p EXCEPT !.Node = Append(@, [ID |-> id, Type |-> NodeTypeName(nodeType)])]]

\* EN_getnodeid: 203 for an index that is no node.
EN_getnodeid(p, index) ==
    IF index <= 0 \/ index > Len(p.Node) THEN [code |-> 203, id |-> ""]
    ELSE [code |-> 0, id |-> p.Node[index].ID]

\* EN_setnodeid
EN_setnodeid(p, index, newid) ==
    IF index <= 0 \/ index > Len(p.Node) THEN [code |-> 203, p |-> p]
    ELSE IF ~namevalid(newid) THEN [code |-> 252, p |-> p]
    ELSE IF findnode(p, newid) # 0 THEN [code |-> 215, p |-> p]
    ELSE [code |-> 0, p |-> [p EXCEPT !.Node[index].ID = newid]]

NodeProperties == {"Elevation", "TankLevel"}

LinkProperties == {"Diameter", "Length", "Setting"}

\* The property tables of the input network; a node or link added later has 0.
NodeValueOf(node, property) ==
    CASE property = "Elevation" /\ node.ID = "10" -> 710
      [] property = "Elevation" /\ node.ID = "23" -> 690
      [] property = "Elevation" /\ node.ID = "2"  -> 850
      [] property = "TankLevel" /\ node.ID = "2"  -> 120
      [] OTHER -> 0

LinkValueOf(link, property) ==
    CASE property = "Setting" ->
            IF "Setting" \in DOMAIN link THEN link.Setting ELSE InitSetting
      [] property = "Diameter" /\ link.ID = "22"  -> 12
      [] property = "Diameter" /\ link.ID = "113" -> 12
      [] property = "Diameter" /\ link.ID = "9"   -> 18
      [] property = "Diameter" /\ link.ID = "31"  -> 6
      [] property = "Length" /\ link.ID = "22"    -> 5280
      [] property = "Length" /\ link.ID = "113"   -> 5280
      [] property = "Length" /\ link.ID = "9"     -> 10530
      [] property = "Length" /\ link.ID = "31"    -> 5280
      [] OTHER -> 0

\* EN_getnodevalue
EN_getnodevalue(p, index, property) ==
    IF index <= 0 \/ index > Len(p.Node) THEN [code |-> 203, value |-> 0]
    ELSE IF property \notin NodeProperties THEN [code |-> 251, value |-> 0]
    ELSE [code |-> 0, value |-> NodeValueOf(p.Node[index], property)]

\* EN_getnodevalues writes one value per node through the pointer it is given.
EN_getnodevalues(p, property) ==
    IF property \notin NodeProperties THEN [code |-> 251, values |-> <<>>]
    ELSE [code |-> 0,
          values |-> [i \in 1..Len(p.Node) |-> NodeValueOf(p.Node[i], property)]]

\* EN_getlinkvalue
EN_getlinkvalue(p, index, property) ==
    IF index <= 0 \/ index > Len(p.Link) THEN [code |-> 204, value |-> 0]
    ELSE IF property \notin LinkProperties THEN [code |-> 251, value |-> 0]
    ELSE [code |-> 0, value |-> LinkValueOf(p.Link[index], property)]

\* EN_getlinkvalues writes one value per link through the pointer it is given.
EN_getlinkvalues(p, property) ==
    IF property \notin LinkProperties THEN [code |-> 251, values |-> <<>>]
    ELSE [code |-> 0,
          values |-> [i \in 1..Len(p.Link) |-> LinkValueOf(p.Link[i], property)]]

EN_QualityType == [None |-> 0, Chem |-> 1, Age |-> 2, Trace |-> 3]

\* EN_getqualinfo: the project's quality options; qualType is the
\* discriminant the engine holds for the analysis type.
EN_getqualinfo(p, qualType) ==
    [code |-> 0, qualType |-> qualType, chemName |-> "Chlorine",
     chemUnits |-> "mg/L", traceNode |-> 0]

----------------------------------------------------------------------------
(* Vec<f64>: the allocation and the length the vector reports *)

Uninit == "uninit"

\* Vec::with_capacity(n): room for n elements, length 0.
Vec_with_capacity(n) == [len |-> 0, buf |-> [i \in 1..n |-> Uninit]]

\* vec![elem; n]: n initialised elements, length n.
vec_from_elem(elem, n) == [len |-> n, buf |-> [i \in 1..n |-> elem]]

\* A write through as_mut_ptr() fills the allocation and leaves len alone.
WriteThrough(v, values) ==
    [v EXCEPT !.buf = [i \in 1..Len(@) |-> IF i <= Len(values) THEN values[i] ELSE @[i]]]

\* The elements a Vec holds: the first len slots of its allocation.
Elements(v) == SubSeq(v.buf, 1, v.len)

----------------------------------------------------------------------------
(* The wrapper: nodes, links, quality options *)

Engine(fn, code) == [fn |-> fn, code |-> code]

\* Mutant: add_node that does not read the index the engine wrote.
add_node_index_unread(p, id, node_type) ==
    LET r == EN_addnode(p, id, NodeType[node_type])
        checked == check_error_with_context(r.code, <<"Failed to add node", node_type, id>>)
    IN [p |-> r.p, calls |-> <<Engine("EN_addnode", r.code)>>,
        ret |-> IF IsOkResult(checked) THEN Ok(0) ELSE checked]

add_node(p, id, node_type) ==
    LET r == EN_addnode(p, id, NodeType[node_type])
        checked == check_error_with_context(r.code, <<"Failed to add node", node_type, id>>)
    IN [p |-> r.p, calls |-> <<Engine("EN_addnode", r.code)>>,
        ret |-> IF IsOkResult(checked) THEN Ok(r.index) ELSE checked]

get_node_id(p, index) ==
    LET r == EN_getnodeid(p, index)
        checked == check_error_with_context(r.code, <<"Failed to get node id", index>>)
    IN [p |-> p, calls |-> <<Engine("EN_getnodeid", r.code)>>,
        ret |-> IF IsOkResult(checked) THEN Ok(r.id) ELSE checked]

set_node_id(p, index, node_id) ==
    LET r == EN_setnodeid(p, index, node_id)
    IN [p |-> r.p, calls |-> <<Engine("EN_setnodeid", r.code)>>,
        ret |-> check_error_with_context(r.code, <<"Failed to set the id", node_id, index>>)]

get_node_value(p, index, node_property) ==
    LET r == EN_getnodevalue(p, index, node_property)
        checked == check_error_with_context(r.code, <<"Failed to get", node_property, index>>)
    IN [p |-> p, calls |-> <<Engine("EN_getnodevalue", r.code)>>,
        ret |-> IF IsOkResult(checked) THEN Ok(r.value) ELSE checked]

get_node_values(p, node_property) ==
    LET node_count == get_count(p, "NodeCount")
    IN IF ~IsOkResult(node_count)
       THEN [p |-> p, calls |-> <<Engine("EN_getcount", node_count.code)>>, ret |-> node_count]
       ELSE LET result == vec_from_elem(0, node_count.val)
                r == EN_getnodevalues(p, node_property)
                checked == check_error_with_context(
                               r.code, <<"Failed to get for all nodes", node_property>>)
            IN [p |-> p,
                calls |-> <<Engine("EN_getcount", 0), Engine("EN_getnodevalues", r.code)>>,
                ret |-> IF IsOkResult(checked)
                        THEN Ok(Elements(WriteThrough(result, r.values)))
                        ELSE checked]

get_link_value(p, index, property) ==
    LET r == EN_getlinkvalue(p, index, property)
    IN [p |-> p, calls |-> <<Engine("EN_getlinkvalue", r.code)>>,
        ret |-> IF r.code = 0 THEN Ok(r.value) ELSE EPANETError_from(r.code)]

get_link_values(p, property) ==
    LET link_count == get_count(p, "LinkCount")
    IN IF ~IsOkResult(link_count)
       THEN [p |-> p, calls |-> <<Engine("EN_getcount", link_count.code)>>, ret |-> link_count]
       ELSE LET values == Vec_with_capacity(link_count.val)
                r == EN_getlinkvalues(p, property)
            IN [p |-> p,
                calls |-> <<Engine("EN_getcount", 0), Engine("EN_getlinkvalues", r.code)>>,
                ret |-> IF r.code = 0
                        THEN Ok(Elements(WriteThrough(values, r.values)))
                        ELSE EPANETError_from(r.code)]

\* QualityType::from_i32: the variant with the discriminant as <<variant>>,
\* and <<>> (Option::None) for a discriminant that is no variant.
QualityType_from_i32(n) ==
    IF \E q \in DOMAIN EN_QualityType : EN_QualityType[q] = n
    THEN <<CHOOSE q \in DOMAIN EN_QualityType : EN_QualityType[q] = n>>
    ELSE <<>>

QualityAnalysisInfo(quality_type, chem_name, chem_units, trace_node_index) ==
    [quality_type |-> quality_type, chem_name |-> chem_name,
     chem_units |-> chem_units, trace_node_index |-> trace_node_index]

\* ok_or_else(|| EPANETError::from(result)) runs after result was found to be 0.
get_quality_info(p, qualType) ==
    LET r == EN_getqualinfo(p, qualType)
        result == r.code
        quality_type == QualityType_from_i32(r.qualType)
    IN [p |-> p, calls |-> <<Engine("EN_getqualinfo", result)>>,
        ret |-> IF result # 0 THEN EPANETError_from(result)
                ELSE IF quality_type = <<>> THEN EPANETError_from(result)
                ELSE Ok(QualityAnalysisInfo(quality_type[1], r.chemName,
                                            r.chemUnits, r.traceNode))]

----------------------------------------------------------------------------
(* The state machine of node, link and option calls *)

NewIDs == {"N1", "N2", "N 3", "10"}

RenameIDs == {"N1", "N;2"}

QualTypes == {0, 1, 3, 7}

Network(op, index, action, text, r) ==
    /\ ph' = r.p
    /\ pre' = ph
    /\ last' = Call(op, index, action, text, NoEnv, r.ret, r.calls)
    /\ UNCHANGED analysis

AddNode(id, node_type) ==
    /\ Len(ph.Node) < MaxNodes
    /\ Network("add_node", 0, node_type, id, add_node(ph, id, node_type))

GetNodeId(index) == Network("get_node_id", index, "", "", get_node_id(ph, index))

SetNodeId(index, id) == Network("set_node_id", index, "", id, set_node_id(ph, index, id))

GetNodeValue(index, property) ==
    Network("get_node_value", index, property, "", get_node_value(ph, index, property))

GetNodeValues(property) ==
    Network("get_node_values", 0, property, "", get_node_values(ph, property))

GetLinkValue(index, property) ==
    Network("get_link_value", index, property, "", get_link_value(ph, index, property))

GetLinkValues(property) ==
    Network("get_link_values", 0, property, "", get_link_values(ph, property))

GetQualityInfo(qualType) ==
    Network("get_quality_info", qualType, "", "", get_quality_info(ph, qualType))

InitNet ==
    /\ ph = [Node |-> InitNodes, Link |-> CHOOSE links \in InitLinks : TRUE,
             Control |-> <<SimpleControl("LowLevel", 3, 3, 1, 110),
                           SimpleControl("Timer", 1, 0, 0, 3600)>>,
             Rule |-> <<>>, Curve |-> <<>>]
    /\ pre = ph
    /\ last = Call("new", 0, "", NoText, NoEnv, Ok(Unit), <<>>)
    /\ sim = NewAnalysis(1, 1)
    /\ psim = sim
    /\ obs = NoObs
    /\ held = <<>>
    /\ life = <<>>

NextNet ==
    \/ \E id \in NewIDs, node_type \in DOMAIN NodeType : AddNode(id, node_type)
    \/ \E index \in 1..Len(ph.Node) : DeleteNode(index, "Unconditional")
    \/ \E index \in 0..(Len(ph.Node) + 1) : GetNodeId(index)
    \/ \E index \in 0..Len(ph.Node), id \in RenameIDs : SetNodeId(index, id)
    \/ \E index \in 0..Len(ph.Node), property \in NodeProperties :
          GetNodeValue(index, property)
    \/ \E property \in NodeProperties : GetNodeValues(property)
    \/ \E index \in 0..(Len(ph.Link) + 1), property \in {"Diameter", "Length", "Grade"} :
          GetLinkValue(index, property)
    \/ \E property \in {"Diameter", "Length", "Grade"} : GetLinkValues(property)
    \/ \E qualType \in QualTypes : GetQualityInfo(qualType)

SpecNet == InitNet /\ [][NextNet]_vars

----------------------------------------------------------------------------
(* Claims about nodes, links, errors and quality options *)

JunctionsFirst(p) ==
    \A i, j \in 1..Len(p.Node) :
        (p.Node[i].Type = "Junction" /\ p.Node[j].Type # "Junction") => i < j

Added == last.op = "add_node" /\ IsOk(last.ret)

\* C25: junctions always precede tanks and reservoirs in the node array.  A
\* successful add_node(id, Junction) returns the number of junctions before
\* the call plus one and moves every tank and reservoir up by one index; a
\* tank or reservoir is appended at the end.  Right after the add,
\* get_node_index(id) returns the same index and get_node_id of it returns id.
C25_JunctionsBeforeTanks ==
    /\ JunctionsFirst(ph)
    /\ Added =>
          LET k == last.ret.val
              n == Njuncs(pre)
          IN /\ Len(ph.Node) = Len(pre.Node) + 1
             /\ IF last.action = "Junction"
                THEN /\ k = n + 1
                     /\ \A i \in 1..Len(pre.Node) :
                           ph.Node[IF i > n THEN i + 1 ELSE i] = pre.Node[i]
                ELSE /\ k = Len(pre.Node) + 1
                     /\ SubSeq(ph.Node, 1, Len(pre.Node)) = pre.Node
             /\ ph.Node[k] = [ID |-> last.text, Type |-> last.action]
             /\ get_node_index(ph, last.text) = Ok(k)
             /\ get_node_id(ph, k).ret = Ok(last.text)

\* A junction was added to a network that holds a tank, which moved up.
C25_Witness ==
    /\ Added
    /\ last.action = "Junction"
    /\ Njuncs(pre) < Len(pre.Node)
    /\ ph.Node[Len(ph.Node)] = pre.Node[Len(pre.Node)]

\* A reservoir was appended behind the tank.
C25_WitnessAppend ==
    /\ Added
    /\ last.action = "Reservoir"
    /\ last.ret.val = Len(ph.Node)
    /\ ph.Node[Len(ph.Node) - 1].Type = "Tank"

\* C28: a successful get_link_values(property) returns one value per link,
\* the length being get_count(LinkCount) and element i-1 being what
\* get_link_value(i, property) returns.
C28_LinkValuesShape ==
    (last.op = "get_link_values" /\ IsOk(last.ret)) =>
        /\ Len(last.ret.val) = get_count(pre, "LinkCount").val
        /\ \A i \in 1..Len(pre.Link) :
              Ok(last.ret.val[i]) = get_link_value(pre, i, last.action).ret

\* get_node_values has the shape C28 describes: one value per node, element
\* i-1 being what get_node_value(i, property) returns.
C28_NodeValuesShape ==
    (last.op = "get_node_values" /\ IsOk(last.ret)) =>
        /\ Len(last.ret.val) = get_count(pre, "NodeCount").val
        /\ \A i \in 1..Len(pre.Node) :
              Ok(last.ret.val[i]) = get_node_value(pre, i, last.action).ret

C28_NodeValuesWitness ==
    /\ last.op = "get_node_values"
    /\ IsOk(last.ret)
    /\ Len(last.ret.val) = 4

\* The call reached the engine, whose last return code is on record.
Reported == last.calls # <<>> /\ last.op \notin {"new", "delete_node"}

EngineCode == last.calls[Len(last.calls)].code

ErrorCodes == {0, 203, 204, 215, 251, 252}

\* C24: an error a wrapper call returns is equal (PartialEq) to
\* EPANETError::from(c) exactly for the code c the engine returned, with or
\* without a context attached; check_error and check_error_with_context
\* return Ok exactly for code 0 and otherwise an error carrying the code.
C24_ErrorEqualsFromCode ==
    /\ \A code \in ErrorCodes :
          /\ IsOk(check_error(code)) <=> code = 0
          /\ IsOk(check_error_with_context(code, <<"context">>)) <=> code = 0
          /\ code # 0 => /\ check_error(code).code = code
                         /\ check_error_with_context(code, <<"context">>).code = code
    /\ (Reported /\ last.ret.kind = "Err") =>
          \A c \in ErrorCodes : eq(last.ret, EPANETError_from(c)) <=> c = EngineCode

\* add_node with an invalid ID returned an error that carries a context and
\* is equal to EPANETError::from(252).
C24_Witness ==
    /\ last.op = "add_node"
    /\ last.ret.kind = "Err"
    /\ "context" \in DOMAIN last.ret
    /\ EngineCode = 252
    /\ eq(last.ret, EPANETError_from(252))

\* The same for set_node_id.
C24_WitnessRename ==
    /\ last.op = "set_node_id"
    /\ last.ret.kind = "Err"
    /\ "context" \in DOMAIN last.ret
    /\ EngineCode = 252
    /\ eq(last.ret, EPANETError_from(252))

\* C29: every Err a wrapper call returns carries a non-zero code, also the
\* one get_quality_info returns when the engine reports a quality type that
\* is no known variant.
C29_ErrCodeNonZero ==
    last.ret.kind = "Err" => last.ret.code # 0

----------------------------------------------------------------------------
(* HydraulicSolver<State>: the typestate wrapper of types/analysis.rs *)

Typestates == {"Closed", "Initialized", "Running", "Solved"}

HydraulicSolver(project, next_step, current_time, state) ==
    [ph |-> project, next_step |-> next_step, current_time |-> current_time,
     state |-> state]

\* The methods each impl block offers: impl HydraulicSolver<Closed> has solve
\* and init, impl HydraulicSolver<Solved> has save and close, and there is no
\* impl block for Initialized or Running.
Impl ==
    [Closed |-> {"solve", "init"}, Solved |-> {"save", "close"},
     Initialized |-> {}, Running |-> {}]

\* Mutant: solve that leaves the two times as they were.
solve_keeping_times(self) ==
    <<HydraulicSolver(self.ph, self.next_step, self.current_time, "Solved")>>

\* Each method consumes self; the value it returns is <<solver>>, and <<>>
\* for save, which returns ().
solve(self) == <<HydraulicSolver(self.ph, 0, 0, "Solved")>>

init(self) == <<HydraulicSolver(self.ph, 0, 0, "Initialized")>>

save(self) == <<>>

close(self) == <<HydraulicSolver(self.ph, 0, 0, "Closed")>>

Method(name, self) ==
    CASE name = "solve" -> solve(self)
      [] name = "init"  -> init(self)
      [] name = "save"  -> save(self)
      [] name = "close" -> close(self)

SolverTimes == 0..MaxDur

Typestate(op, solver) ==
    /\ held' = solver
    /\ last' = Call(op, 0, "", held[1], NoEnv, Ok(Unit), <<>>)
    /\ UNCHANGED <<ph, pre, sim, psim, obs, life>>

Available(name) == held # <<>> /\ name \in Impl[held[1].state]

SolverSolve == Available("solve") /\ Typestate("solve", solve(held[1]))

SolverInit == Available("init") /\ Typestate("init", init(held[1]))

SolverSave == Available("save") /\ Typestate("save", save(held[1]))

SolverClose == Available("close") /\ Typestate("close", close(held[1]))

\* next_step and current_time are public fields the owner may assign.
SetNextStep(t) ==
    /\ held # <<>>
    /\ Typestate("next_step", <<[held[1] EXCEPT !.next_step = t]>>)

SetCurrentTime(t) ==
    /\ held # <<>>
    /\ Typestate("current_time", <<[held[1] EXCEPT !.current_time = t]>>)

InitSolver ==
    /\ ph = [Node |-> InitNodes, Link |-> CHOOSE links \in InitLinks : TRUE,
             Control |-> <<>>, Rule |-> <<>>, Curve |-> <<>>]
    /\ pre = ph
    /\ last = Call("new", 0, "", NoText, NoEnv, Ok(Unit), <<>>)
    /\ sim = NewAnalysis(1, 1)
    /\ psim = sim
    /\ obs = NoObs
    /\ \E project \in 1..MaxProjects, t \in SolverTimes :
          held = <<HydraulicSolver(project, t, t, "Closed")>>
    /\ life = <<>>

NextSolver ==
    \/ SolverSolve
    \/ SolverInit
    \/ SolverSave
    \/ SolverClose
    \/ \E t \in SolverTimes : SetNextStep(t)
    \/ \E t \in SolverTimes : SetCurrentTime(t)

SpecSolver == InitSolver /\ [][NextSolver]_vars

\* The states from which at most n method calls lead to Closed.
RECURSIVE LeadToClosed(_)
LeadToClosed(n) ==
    IF n = 0 THEN {"Closed"}
    ELSE LET S == LeadToClosed(n - 1)
             probe(s) == HydraulicSolver(1, 0, 0, s)
         IN S \cup {s \in Typestates :
                      \E name \in Impl[s] :
                          /\ Method(name, probe(s)) # <<>>
                          /\ Method(name, probe(s))[1].state \in S}

TypestateCall == last.op \in {"solve", "init", "save", "close"}

\* solve and init were called on Closed, save and close on Solved; the solver
\* returned holds the same project and has both times at 0.
C30_Transitions ==
    TypestateCall =>
        /\ last.op \in {"solve", "init"} => last.text.state = "Closed"
        /\ last.op \in {"save", "close"} => last.text.state = "Solved"
        /\ held # <<>> =>
              /\ held[1].ph = last.text.ph
              /\ held[1].next_step = 0
              /\ held[1].current_time = 0
              /\ held[1].state = CASE last.op = "solve" -> "Solved"
                                   [] last.op = "init"  -> "Initialized"
                                   [] last.op = "close" -> "Closed"

C30_TransitionsWitness ==
    /\ last.op = "solve"
    /\ last.text.next_step # 0
    /\ held[1].state = "Solved"

\* C30: solve and init are available only in Closed and save and close only
\* in Solved, each transition keeps the project and resets next_step and
\* current_time to 0, and from every state a solver reaches (Solved,
\* Initialized) some sequence of transitions leads back to Closed.
C30_Typestate ==
    /\ C30_Transitions
    /\ held # <<>> => held[1].state \in LeadToClosed(Cardinality(Typestates))

----------------------------------------------------------------------------
(* Curves: the engine's curve array *)

MaxCurves == 2

EN_CurveType ==
    [VolumeCurve |-> 0, PumpCurve |-> 1, EfficCurve |-> 2, HLossCurve |-> 3,
     GenericCurve |-> 4, ValveCurve |-> 5]

CurveType == EN_CurveType

CurveTypeName(t) == CHOOSE n \in DOMAIN EN_CurveType : EN_CurveType[n] = t

findcurve(p, id) == IndexOfFrom(p.Curve, id, 1)

ValidCurve(p, index) == index >= 1 /\ index <= Len(p.Curve)

\* EN_addcurve: the new curve is generic and holds the single point (1, 1).
EN_addcurve(p, id) ==
    IF findcurve(p, id) # 0 THEN [code |-> 215, p |-> p]
    ELSE IF ~namevalid(id) THEN [code |-> 252, p |-> p]
    ELSE [code |-> 0,
          p |-> [p EXCEPT !.Curve = Append(@, [ID |-> id, Type |-> EN_CurveType.GenericCurve,
                                               X |-> <<1>>, Y |-> <<1>>])]]

\* EN_deletecurve: the curves behind the deleted one move down by one.
EN_deletecurve(p, index) ==
    IF ~ValidCurve(p, index) THEN [code |-> 206, p |-> p]
    ELSE [code |-> 0, p |-> [p EXCEPT !.Curve = RemoveAt(@, index)]]

\* EN_getcurveindex: 206 when no curve has the ID.
EN_getcurveindex(p, id) ==
    IF findcurve(p, id) = 0 THEN [code |-> 206, index |-> 0]
    ELSE [code |-> 0, index |-> findcurve(p, id)]

EN_getcurveid(p, index) ==
    IF ~ValidCurve(p, index) THEN [code |-> 206, id |-> ""]
    ELSE [code |-> 0, id |-> p.Curve[index].ID]

\* EN_setcurveid: 215 when another curve has the ID already.
EN_setcurveid(p, index, id) ==
    IF ~ValidCurve(p, index) THEN [code |-> 206, p |-> p]
    ELSE IF ~namevalid(id) THEN [code |-> 252, p |-> p]
    ELSE IF findcurve(p, id) \notin {0, index} THEN [code |-> 215, p |-> p]
    ELSE [code |-> 0, p |-> [p EXCEPT !.Curve[index].ID = id]]

EN_getcurvelen(p, index) ==
    IF ~ValidCurve(p, index) THEN [code |-> 206, len |-> 0]
    ELSE [code |-> 0, len |-> Len(p.Curve[index].X)]

EN_getcurvetype(p, index) ==
    IF ~ValidCurve(p, index) THEN [code |-> 206, type |-> 0]
    ELSE [code |-> 0, type |-> p.Curve[index].Type]

EN_setcurvetype(p, index, type) ==
    IF ~ValidCurve(p, index) THEN [code |-> 206, p |-> p]
    ELSE IF type \notin {EN_CurveType[n] : n \in DOMAIN EN_CurveType}
         THEN [code |-> 251, p |-> p]
    ELSE [code |-> 0, p |-> [p EXCEPT !.Curve[index].Type = type]]

\* EN_getcurve writes the ID, the number of points and the x and y arrays.
EN_getcurve(p, index) ==
    IF ~ValidCurve(p, index)
    THEN [code |-> 206, id |-> "", nPoints |-> 0, xValues |-> <<>>, yValues |-> <<>>]
    ELSE [code |-> 0, id |-> p.Curve[index].ID, nPoints |-> Len(p.Curve[index].X),
          xValues |-> p.Curve[index].X, yValues |-> p.Curve[index].Y]

\* EN_setcurve: 202 for no points, 230 when the x values do not ascend.
EN_setcurve(p, index, xValues, yValues, nPoints) ==
    IF ~ValidCurve(p, index) THEN [code |-> 206, p |-> p]
    ELSE IF nPoints <= 0 THEN [code |-> 202, p |-> p]
    ELSE IF \E i \in 2..nPoints : xValues[i - 1] >= xValues[i] THEN [code |-> 230, p |-> p]
    ELSE [code |-> 0,
          p |-> [p EXCEPT !.Curve[index].X = SubSeq(xValues, 1, nPoints),
                          !.Curve[index].Y = SubSeq(yValues, 1, nPoints)]]

----------------------------------------------------------------------------
(* The wrapper: curves *)

\* A Curve snapshot; project is the EPANET value it borrows.
Curve(index, id, curve_type, points) ==
    [index |-> index, id |-> id, curve_type |-> curve_type, points |-> points]

Step(p, code, fn) ==
    [p |-> p, ret |-> IF code = 0 THEN Ok(Unit) ELSE EPANETError_from(code),
     calls |-> <<Engine(fn, code)>>]

add_curve(p, id) ==
    LET r == EN_addcurve(p, id) IN Step(r.p, r.code, "EN_addcurve")

delete_curve_by_id(p, index) ==
    LET r == EN_deletecurve(p, index) IN Step(r.p, r.code, "EN_deletecurve")

get_curve_index(p, id) ==
    LET r == EN_getcurveindex(p, id)
    IN [p |-> p, calls |-> <<Engine("EN_getcurveindex", r.code)>>,
        ret |-> IF r.code = 0 THEN Ok(r.index) ELSE EPANETError_from(r.code)]

set_curve_id(p, index, id) ==
    LET r == EN_setcurveid(p, index, id) IN Step(r.p, r.code, "EN_setcurveid")

get_curve_len(p, index) ==
    LET r == EN_getcurvelen(p, index)
    IN [p |-> p, calls |-> <<Engine("EN_getcurvelen", r.code)>>,
        ret |-> IF r.code = 0 THEN Ok(r.len) ELSE EPANETError_from(r.code)]

\* CurveType::from_i32(out_type).unwrap()
get_curve_type(p, index) ==
    LET r == EN_getcurvetype(p, index)
    IN [p |-> p, calls |-> <<Engine("EN_getcurvetype", r.code)>>,
        ret |-> IF r.code # 0 THEN EPANETError_from(r.code)
                ELSE IF \E n \in DOMAIN CurveType : CurveType[n] = r.type
                THEN Ok(CurveTypeName(r.type))
                ELSE Panic("called Option::unwrap() on a None value")]

set_curve_type(p, index, curve_type) ==
    LET r == EN_setcurvetype(p, index, CurveType[curve_type])
    IN Step(r.p, r.code, "EN_setcurvetype")

\* out_x.iter().zip(out_y.iter()): pairs up to the shorter of the two.
zip(xs, ys) ==
    [i \in 1..(IF Len(xs) < Len(ys) THEN Len(xs) ELSE Len(ys)) |-> <<xs[i], ys[i]>>]

\* values.iter().cloned().unzip()
unzip(values) ==
    [x_vec |-> [i \in 1..Len(values) |-> values[i][1]],
     y_vec |-> [i \in 1..Len(values) |-> values[i][2]]]

get_curve_points(p, index) ==
    LET len == get_curve_len(p, index)
    IN IF ~IsOkResult(len.ret) THEN len
       ELSE LET out_x == vec_from_elem(0, len.ret.val)
                out_y == vec_from_elem(0, len.ret.val)
                r == EN_getcurve(p, index)
            IN [p |-> p, calls |-> len.calls \o <<Engine("EN_getcurve", r.code)>>,
                ret |-> IF r.code = 0
                        THEN Ok(zip(Elements(WriteThrough(out_x, r.xValues)),
                                    Elements(WriteThrough(out_y, r.yValues))))
                        ELSE EPANETError_from(r.code)]

\* Mutant: the points are sent with x and y exchanged.
set_curve_swapped(p, index, values) ==
    LET v == unzip(values)
        r == EN_setcurve(p, index, v.y_vec, v.x_vec, Len(values))
    IN Step(r.p, r.code, "EN_setcurve")

set_curve(p, index, values) ==
    LET v == unzip(values)
        r == EN_setcurve(p, index, v.x_vec, v.y_vec, Len(values))
    IN Step(r.p, r.code, "EN_setcurve")

create_curve(p, id, curve_type, points) ==
    LET a == add_curve(p, id)
        i == get_curve_index(a.p, id)
        t == set_curve_type(a.p, i.ret.val, curve_type)
        s == set_curve(t.p, i.ret.val, points)
    IN IF ~IsOkResult(a.ret) THEN a
       ELSE IF ~IsOkResult(i.ret) THEN [i EXCEPT !.calls = a.calls \o @]
       ELSE IF ~IsOkResult(t.ret) THEN [t EXCEPT !.calls = a.calls \o i.calls \o @]
       ELSE [p |-> s.p, calls |-> a.calls \o i.calls \o t.calls \o s.calls,
             ret |-> IF IsOkResult(s.ret)
                     THEN Ok(Curve(i.ret.val, id, curve_type, points))
                     ELSE s.ret]

get_curve_by_id(p, id) ==
    LET i == get_curve_index(p, id)
        t == get_curve_type(p, i.ret.val)
        pts == get_curve_points(p, i.ret.val)
    IN IF ~IsOkResult(i.ret) THEN i
       ELSE IF ~IsOkResult(t.ret) THEN [t EXCEPT !.calls = i.calls \o @]
       ELSE [p |-> p, calls |-> i.calls \o t.calls \o pts.calls,
             ret |-> IF IsOkResult(pts.ret)
                     THEN Ok(Curve(i.ret.val, id, t.ret.val, pts.ret.val))
                     ELSE pts.ret]

update_curve(p, curve) ==
    LET i == set_curve_id(p, curve.index, curve.id)
        t == set_curve_type(i.p, curve.index, curve.curve_type)
        s == set_curve(t.p, curve.index, curve.points)
    IN IF ~IsOkResult(i.ret) THEN i
       ELSE IF ~IsOkResult(t.ret) THEN [t EXCEPT !.calls = i.calls \o @]
       ELSE [s EXCEPT !.calls = i.calls \o t.calls \o @]

delete_curve(p, curve) == delete_curve_by_id(p, curve.index)

Curve_update(p, self) == update_curve(p, self)

Curve_delete(p, self) == delete_curve(p, self)

----------------------------------------------------------------------------
(* The state machine of curve calls *)

CurveIDs == {"CurveA", "CurveB", "CurveC", "N;3"}

CurveTypes == {"EfficCurve", "PumpCurve"}

\* Point lists: one and two points, none, and one whose x values descend.
PointLists == { <<<<1, 2>>, <<3, 4>>>>, <<<<5, 6>>>>, <<>>, <<<<3, 4>>, <<1, 2>>>> }

Curves(op, id, curve_type, points, r, snapshot) ==
    /\ ph' = r.p
    /\ pre' = ph
    /\ last' = Call(op, 0, curve_type, [id |-> id, points |-> points, held |-> held],
                    NoEnv, r.ret, r.calls)
    /\ held' = snapshot
    /\ UNCHANGED <<sim, psim, obs, life>>

CreateCurve(id, curve_type, points) ==
    /\ Len(ph.Curve) < MaxCurves
    /\ LET r == create_curve(ph, id, curve_type, points)
       IN Curves("create_curve", id, curve_type, points, r,
                 IF IsOkResult(r.ret) THEN <<r.ret.val>> ELSE held)

GetCurveById(id) ==
    LET r == get_curve_by_id(ph, id)
    IN Curves("get_curve_by_id", id, "", <<>>, r,
              IF IsOkResult(r.ret) THEN <<r.ret.val>> ELSE held)

\* curve.points = points; curve.update()
UpdateCurve(points) ==
    /\ held # <<>>
    /\ LET curve == [held[1] EXCEPT !.points = points]
       IN Curves("update", curve.id, curve.curve_type, points,
                 Curve_update(ph, curve), <<curve>>)

\* curve.delete() consumes the snapshot.
DeleteCurve ==
    /\ held # <<>>
    /\ Curves("delete", held[1].id, held[1].curve_type, held[1].points,
              Curve_delete(ph, held[1]), <<>>)

InitCurve ==
    /\ ph = [Node |-> InitNodes, Link |-> CHOOSE links \in InitLinks : TRUE,
             Control |-> <<>>, Rule |-> <<>>, Curve |-> <<>>]
    /\ pre = ph
    /\ last = Call("new", 0, "", NoText, NoEnv, Ok(Unit), <<>>)
    /\ sim = NewAnalysis(1, 1)
    /\ psim = sim
    /\ obs = NoObs
    /\ held = <<>>
    /\ life = <<>>

NextCurve ==
    \/ \E id \in CurveIDs, curve_type \in CurveTypes, points \in PointLists :
          CreateCurve(id, curve_type, points)
    \/ \E id \in CurveIDs : GetCurveById(id)
    \/ \E points \in PointLists : UpdateCurve(points)
    \/ DeleteCurve

SpecCurve == InitCurve /\ [][NextCurve]_vars

\* C26: after a successful create_curve(id, type, points), get_curve_by_id(id)
\* returns the same id, type and points; after the points of the snapshot
\* were replaced and update() succeeded, get_curve_by_id returns the new
\* points; after a successful delete(), get_curve_by_id(id) returns Err.
C26_CurveRoundTrip ==
    /\ (last.op = "create_curve" /\ IsOk(last.ret)) =>
          LET fetched == get_curve_by_id(ph, last.text.id).ret
          IN /\ IsOk(fetched)
             /\ fetched.val.id = last.text.id
             /\ fetched.val.curve_type = last.action
             /\ fetched.val.points = last.text.points
             /\ last.ret.val = fetched.val
    /\ (last.op = "update" /\ IsOk(last.ret)) =>
          LET updated == get_curve_by_id(ph, held[1].id).ret
          IN /\ IsOk(updated)
             /\ updated.val.points = last.text.points
             /\ updated.val.points = held[1].points
    /\ (last.op = "delete" /\ IsOk(last.ret)) =>
          ~IsOk(get_curve_by_id(ph, last.text.id).ret)

\* A curve was created with two points while another curve exists.
C26_Witness ==
    /\ last.op = "create_curve"
    /\ IsOk(last.ret)
    /\ Len(last.text.points) = 2
    /\ last.ret.val.index = 2

\* The points of a snapshot were replaced by a list of another length.
C26_WitnessUpdate ==
    /\ last.op = "update"
    /\ IsOk(last.ret)
    /\ Len(last.text.points) # Len(last.text.held[1].points)

C26_WitnessDelete ==
    /\ last.op = "delete"
    /\ IsOk(last.ret)
    /\ Len(ph.Curve) = 1

----------------------------------------------------------------------------
(* Timer controls in the hydraulic step loop *)

\* The solver works on the controls of the project.
Loaded(p, e) == [e EXCEPT !.Control = p.Control]

\* The project as the accessors see it: every link with its current setting.
Current(p, e) ==
    [p EXCEPT !.Link =
        [k \in 1..Len(@) |->
            [f \in DOMAIN @[k] \cup {"Setting"} |->
                IF f = "Setting" THEN e.LinkSetting[k] ELSE @[k][f]]]]

\* (control_type, link_index, setting, node_index, level, enabled); the level
\* of a timer control is its time on the clock of the model.
TimerArgs ==
    { [control_type |-> "Timer", link_index |-> 1, setting |-> 0, node_index |-> 0,
       level |-> 1, enabled |-> TRUE],
      [control_type |-> "Timer", link_index |-> 1, setting |-> 5, node_index |-> 0,
       level |-> 2, enabled |-> TRUE],
      [control_type |-> "Timer", link_index |-> 2, setting |-> 5, node_index |-> 0,
       level |-> 1, enabled |-> FALSE],
      [control_type |-> "Timer", link_index |-> 9, setting |-> 0, node_index |-> 0,
       level |-> 1, enabled |-> TRUE] }

Timed(op, index, r) ==
    /\ sim' = r.e
    /\ psim' = sim
    /\ last' = Call(op, index, "", NoText, NoEnv, r.ret, <<>>)
    /\ UNCHANGED <<ph, pre, obs, held, life>>

TimerAdd(a) ==
    /\ Len(ph.Control) < MaxControls
    /\ LET r == add_control(ph, a.control_type, a.link_index, a.setting,
                            a.node_index, a.level, a.enabled, NoEnv)
       IN /\ ph' = r.p
          /\ pre' = ph
          /\ sim' = Loaded(r.p, sim)
          /\ psim' = sim
          /\ last' = Call("add_control", 0, "", a, NoEnv, r.ret, r.calls)
          /\ UNCHANGED <<obs, held, life>>

TimerOpenH == Timed("open_h", 0, open_h(sim))

TimerInitH == Timed("init_h", 0, init_h(sim, "NoSave"))

TimerRunH == Timed("run_h", 0, run_h(sim))

TimerNextH ==
    /\ sim.Htime <= sim.Dur
    /\ Timed("next_h", 0, next_h(sim))

TimerCloseH == Timed("close_h", 0, close_h(sim))

GetSetting(index) ==
    Timed("get_link_value", index,
          [e |-> sim, ret |-> get_link_value(Current(ph, sim), index, "Setting").ret])

InitTimer ==
    /\ ph = [Node |-> InitNodes, Link |-> CHOOSE links \in InitLinks : TRUE,
             Control |-> <<>>, Rule |-> <<>>, Curve |-> <<>>]
    /\ pre = ph
    /\ last = Call("new", 0, "", NoText, NoEnv, Ok(Unit), <<>>)
    /\ \E dur \in 1..MaxDur, hstep \in 1..MaxHstep :
          sim = [NewAnalysis(dur, hstep) EXCEPT
                    !.LinkSetting = [k \in 1..Len(ph.Link) |-> InitSetting]]
    /\ psim = sim
    /\ obs = NoObs
    /\ held = <<>>
    /\ life = <<>>

NextTimer ==
    \/ \E a \in TimerArgs : TimerAdd(a)
    \/ TimerOpenH
    \/ TimerInitH
    \/ TimerRunH
    \/ TimerNextH
    \/ TimerCloseH
    \/ \E index \in 1..Len(ph.Link) : GetSetting(index)

SpecTimer == InitTimer /\ [][NextTimer]_vars

\* The enabled timer controls of the project that are set to time t and are
\* not followed by another such control on the same link.
FiringAt(t) ==
    {i \in 1..Len(ph.Control) :
        /\ ph.Control[i].Type = "Timer"
        /\ ph.Control[i].isEnabled
        /\ ph.Control[i].Grade = t
        /\ ~\E j \in (i + 1)..Len(ph.Control) :
              /\ ph.Control[j].Type = "Timer"
              /\ ph.Control[j].isEnabled
              /\ ph.Control[j].Grade = t
              /\ ph.Control[j].Link = ph.Control[i].Link}

RanAt == last.op = "run_h" /\ IsOk(last.ret)

\* C23: with an enabled timer control for time T on link L with setting S,
\* the setting of L that get_link_value returns after the run_h step at time
\* T is S; and next_h never steps over T, so that the step loop has a
\* hydraulic step at T.
C23_TimerControlFires ==
    /\ RanAt =>
          \A i \in FiringAt(last.ret.val) :
              get_link_value(Current(ph, sim), ph.Control[i].Link, "Setting").ret
                  = Ok(ph.Control[i].Setting)
    /\ (last.op = "next_h" /\ IsOk(last.ret)) =>
          \A i \in 1..Len(ph.Control) :
              (/\ ph.Control[i].Type = "Timer"
               /\ ph.Control[i].isEnabled
               /\ psim.Htime < ph.Control[i].Grade) => sim.Htime <= ph.Control[i].Grade

\* run_h ran at a time that only the timer control made a step boundary, and
\* the control changed the setting of its link.
C23_Witness ==
    /\ RanAt
    /\ last.ret.val = 1
    /\ sim.Hstep = 2
    /\ \E i \in FiringAt(1) :
          /\ ph.Control[i].Setting # InitSetting
          /\ sim.LinkSetting[ph.Control[i].Link] = ph.Control[i].Setting
          /\ psim.LinkSetting[ph.Control[i].Link] = InitSetting

\* The setting was read through get_link_value after that step.
C23_WitnessRead ==
    /\ last.op = "get_link_value"
    /\ last.ret = Ok(0)
    /\ sim.Htime = 1
    /\ sim.H = "Stepping"

============================================================================
